---- MODULE Spec2Model ----
(***************************************************************************)
(* Local-first encrypted notes: the Dexie store (notes, pendingSync), the  *)
(* Firestore mirror, the note handlers of NoteEditor / NotesList /         *)
(* useNotes and the pending-queue drain (syncWithFirebase) with its two    *)
(* entry points, App.syncNotes and useNotes.syncNotes.                     *)
(*                                                                         *)
(* JavaScript values are tagged records, so that a missing property, a     *)
(* plaintext string, an array and an AES envelope stay distinguishable.    *)
(***************************************************************************)
EXTENDS Integers, Sequences, FiniteSets, TLC

VARIABLES
    isOffline,      \* App state isOffline (= !navigator.onLine)
    user,           \* App state user (uid) or NoUser
    masterKey,      \* encryptionService.masterKey
    sessionKey,     \* sessionStorage 'encKey'
    now,            \* clock read by new Date() / Date.now() / serverTimestamp()
    notes,          \* notesDB.notes      : id -> row
    pendingSync,    \* notesDB.pendingSync: rows in primary-key order
    nextOpId,       \* auto-increment key of pendingSync ('++id')
    remote,         \* Firestore users/{uid}/notes : id -> document
    docCounter,     \* Firestore auto ids handed out so far
    drain,          \* one record per running/finished syncWithFirebase call
    lastDone,       \* history: summary of the drain that returned last
    lastCall,       \* history: the remote or local write settled by the last step, if any
    createCalls,    \* history: successful saveNote calls per (local) note id
    enqueuedPayload,\* history: the note a handler held when it enqueued an op
    encryptionKeys, \* notesDB.encryptionKeys: userId -> cached salt
    remoteSalt,     \* Firestore users/{uid}.encryptionSalt
    appVariant,     \* which App component is built: "App.js" or "part_001"
    logout,         \* position of a running App.handleLogout
    login,          \* position of a running Login / Register handleSubmit
    saltCounter,    \* salts drawn from the random generator so far
    auth,           \* part_001's auth listener run as a step of its own, and
                    \* the user.encryptionReady it set
    handler,        \* a note handler awaiting the remote call it made
    keyCleared,     \* history: clearMasterKey ran and no setMasterKey since
    crypto          \* encryptionService called directly: input, results

\* the account state, which only login, logout and auth changes touch
accountVars == <<encryptionKeys, remoteSalt, appVariant, logout, login, saltCounter, auth>>

vars == <<isOffline, user, masterKey, sessionKey, now, notes, pendingSync,
          nextOpId, remote, docCounter, drain, lastDone, lastCall, createCalls,
          enqueuedPayload, accountVars, handler, keyCleared, crypto>>

-----------------------------------------------------------------------------
(* Bounds *)

\* number of mutation handler invocations explored
MaxClock == 2

\* number of encryptNote calls made on one note
MaxEncrypt == 2

\* number of salts generated by login and registration flows
MaxSalts == 2

-----------------------------------------------------------------------------
(* JavaScript values *)

Undefined == [type |-> "undefined"]
Str(s) == [type |-> "string", text |-> s]
Arr(l) == [type |-> "array", list |-> l]
\* the string CryptoJS.AES.encrypt(p, k).toString() returns: salted envelope
Cipher(k, iv, p) == [type |-> "ciphertext", key |-> k, iv |-> iv, plain |-> p]

IsCiphertext(v) == v.type = "ciphertext"
IsPlaintext(v) == v.type \in {"string", "array"}

NoUser == "null"
NoKey == "null"
NoId == <<"undefined", 0>>
Uid == "u1"
Users == {"u1", "u2"}

\* CryptoJS.lib.WordArray.random(128 / 8).toString(): the n-th salt drawn
\* (two draws never give the same salt)
generateSalt(n) == "salt_" \o ToString(n)

\* the password the user types into the login form
Password(uid) == "pw_" \o uid

\* CryptoJS.PBKDF2(password, salt, { keySize, iterations }).toString()
PBKDF2(password, salt) == "pbkdf2(" \o password \o "," \o salt \o ")"

\* variant: a new salt is used whether or not one was passed in
actualSaltAlwaysNew(salt, fresh) == fresh

\* const actualSalt = salt || this.generateSalt(); fresh is the salt the
\* generator would draw
actualSalt(salt, fresh) == IF salt = "null" THEN fresh ELSE salt

\* deriveKeyFromPassword(password, salt = null): { key, salt: actualSalt }
deriveKeyFromPassword(password, salt, fresh) ==
    [key |-> PBKDF2(password, actualSalt(salt, fresh)), salt |-> actualSalt(salt, fresh)]

\* the salt an account of an earlier session was registered with
InitialSalt(uid) == "salt_" \o uid

\* the key of account u1
Key == deriveKeyFromPassword(Password(Uid), InitialSalt(Uid), InitialSalt(Uid)).key

\* no handleLogout is running
IdleLogout == [pc |-> "idle", uid |-> NoUser, removedNotes |-> 0, removedOps |-> 0]

\* no Login / Register handleSubmit is running; result tells how the last one ended
IdleLogin == [pc |-> "idle", uid |-> NoUser, salt |-> "null", by |-> "none", result |-> "none"]

\* no auth callback is waiting; nobody is signed in
IdleAuth == [pc |-> "idle", uid |-> NoUser, ready |-> FALSE]

\* the App user of a session that is under way: { uid, ..., encryptionReady: true }
ReadyAuth == [pc |-> "idle", uid |-> Uid, ready |-> TRUE]

\* `offline_${Date.now()}_${Math.random()...}` and Firestore's auto id
OfflineId(t) == <<"offline_", t>>
DocId(t) == <<"doc", t>>
IsOfflineId(id) == id[1] = "offline_"

\* String.prototype.trim on the strings the editor is given
Trim(s) == IF s = " " THEN "" ELSE s

\* JSON.stringify on the tag lists the editor is given
Stringify(l) == IF l = <<>> THEN "[]" ELSE "[\"" \o l[1] \o "\"]"

\* what the user typed into the editor form
NoteInputs ==
    { [title |-> "Shopping", content |-> "milk, eggs", tags |-> <<>>],
      [title |-> " ", content |-> "", tags |-> <<>>] }

\* Timestamps.  new Date().toISOString() at clock t is the number t (t > 0).
\* serverTimestamp() is stored by Firestore as a Timestamp; what getNotes
\* hands on, and what Dexie keeps of it, is the object {seconds,
\* nanoseconds}.  It is written as a negative number, so that it stays
\* apart from the ISO strings.
ServerTimestamp(t) == 0 - (t + 1)

\* the instant a timestamp of either kind stands for
Millis(v) == IF v < 0 THEN (0 - v) - 1 ELSE v

\* aVal < bVal in JavaScript: strings compare as strings; an object is
\* first converted to '[object Object]', which sorts after every ISO string
\* and equal to every other object
JsLess(a, b) ==
    IF a < 0 THEN FALSE
    ELSE IF b < 0 THEN TRUE
    ELSE a < b

\* a note object; a property the object lacks is Undefined / 0 / "undefined"
NoteObject(id, uid, title, content, tags, encrypted, createdAt, updatedAt, syncStatus) ==
    [id |-> id, userId |-> uid, title |-> title, content |-> content,
     tags |-> tags, encrypted |-> encrypted, createdAt |-> createdAt,
     updatedAt |-> updatedAt, syncStatus |-> syncStatus]

\* { ...a, ...b }: b's own properties win, a's remain where b has none
Spread(a, b) ==
    [id |-> IF b.id = NoId THEN a.id ELSE b.id,
     userId |-> IF b.userId = NoUser THEN a.userId ELSE b.userId,
     title |-> IF b.title = Undefined THEN a.title ELSE b.title,
     content |-> IF b.content = Undefined THEN a.content ELSE b.content,
     tags |-> IF b.tags = Undefined THEN a.tags ELSE b.tags,
     encrypted |-> IF b.encrypted = "undefined" THEN a.encrypted ELSE b.encrypted,
     createdAt |-> IF b.createdAt = 0 THEN a.createdAt ELSE b.createdAt,
     updatedAt |-> IF b.updatedAt = 0 THEN a.updatedAt ELSE b.updatedAt,
     syncStatus |-> IF b.syncStatus = "undefined" THEN a.syncStatus ELSE b.syncStatus]

EmptyObject ==
    NoteObject(NoId, NoUser, Undefined, Undefined, Undefined, "undefined", 0, 0, "undefined")

\* operation.data read from a pendingSync row, and a handler holding no note
NoData == EmptyObject

\* no note handler is awaiting a remote call
IdleHandler == [kind |-> "none", uid |-> NoUser, id |-> NoId, note |-> NoData]

-----------------------------------------------------------------------------
(* encryption.js *)

\* the key encryptNote ends up using: masterKey, else the session copy
KeyInUse(mk, sk) == IF mk # NoKey THEN mk ELSE sk

\* variant: the note is handed on without being encrypted
encryptNoteSkipped(noteData, key, iv) == noteData

\* variant: title and content are encrypted, the tag array is passed through
encryptNoteTagsPlain(noteData, key, iv) ==
    [noteData EXCEPT
        !.title = Cipher(key, iv, IF noteData.title = Undefined THEN "" ELSE noteData.title.text),
        !.content = Cipher(key, iv + 1, IF noteData.content = Undefined THEN "" ELSE noteData.content.text),
        !.encrypted = "true"]

\* variant: every call uses the same salt
encryptNoteFixedSalt(noteData, key, iv) ==
    [noteData EXCEPT
        !.title = Cipher(key, 0, IF noteData.title = Undefined THEN "" ELSE noteData.title.text),
        !.content = Cipher(key, 1, IF noteData.content = Undefined THEN "" ELSE noteData.content.text),
        !.tags = Cipher(key, 2, Stringify(IF noteData.tags = Undefined THEN <<>> ELSE noteData.tags.list)),
        !.encrypted = "true"]

\* variant: the result is built from the four fields alone, without ...noteData
encryptNoteFieldsOnly(noteData, key, iv) ==
    [EmptyObject EXCEPT
        !.title = Cipher(key, iv, IF noteData.title = Undefined THEN "" ELSE noteData.title.text),
        !.content = Cipher(key, iv + 1, IF noteData.content = Undefined THEN "" ELSE noteData.content.text),
        !.tags = Cipher(key, iv + 2, Stringify(IF noteData.tags = Undefined THEN <<>> ELSE noteData.tags.list)),
        !.encrypted = "true"]

encryptNote(noteData, key, iv) ==
    [noteData EXCEPT
        !.title = Cipher(key, iv, IF noteData.title = Undefined THEN "" ELSE noteData.title.text),
        !.content = Cipher(key, iv + 1, IF noteData.content = Undefined THEN "" ELSE noteData.content.text),
        !.tags = Cipher(key, iv + 2, Stringify(IF noteData.tags = Undefined THEN <<>> ELSE noteData.tags.list)),
        !.encrypted = "true"]

\* the tag lists notes are given
TagLists == {<<>>, <<"work">>}

\* what CryptoJS.AES.decrypt(c, key).toString(Utf8) does when key is not the
\* key c was made with: the unpadded bytes are empty, or are not UTF-8 (the
\* call throws 'Malformed UTF-8 data'), or happen to be UTF-8 text
WrongKeyOutcomes == {"empty", "malformed", "garbage"}

\* CryptoJS.AES.decrypt(c, key).toString(CryptoJS.enc.Utf8)
AESDecrypt(c, key, outcome) ==
    IF c.key = key THEN [thrown |-> FALSE, text |-> c.plain]
    ELSE IF outcome = "malformed" THEN [thrown |-> TRUE, text |-> ""]
    ELSE IF outcome = "empty" THEN [thrown |-> FALSE, text |-> ""]
    ELSE [thrown |-> FALSE, text |-> "Qx7~"]

\* JSON.parse(text || '[]') inside the try block for the tags: [] when it throws
ParseTags(d) ==
    IF d.thrown THEN <<>>
    ELSE IF d.text = "" THEN <<>>
    ELSE IF \E l \in TagLists : Stringify(l) = d.text
         THEN CHOOSE l \in TagLists : Stringify(l) = d.text
    ELSE <<>>

\* a value is truthy unless it is undefined (ciphertext strings are never empty)
Truthy(v) == v # Undefined

NotDecrypted == [status |-> "none", note |-> EmptyObject, of |-> 0, key |-> NoKey]

\* decryptNote with the key in use; outs says what a wrong key decodes to
decryptNote(noteData, key, outs) ==
    IF key = NoKey THEN [status |-> "no-key", note |-> EmptyObject]
    ELSE IF noteData.encrypted # "true" THEN [status |-> "ok", note |-> noteData]
    ELSE LET decryptedTitle == AESDecrypt(noteData.title, key, outs.title)
             decryptedContent == AESDecrypt(noteData.content, key, outs.content)
             decryptedTags ==
                 IF ~Truthy(noteData.tags) THEN <<>>
                 ELSE IF IsCiphertext(noteData.tags)
                      THEN ParseTags(AESDecrypt(noteData.tags, key, outs.tags))
                 ELSE noteData.tags.list
         IN IF decryptedTitle.thrown \/ decryptedContent.thrown
            THEN [status |-> "error", note |-> EmptyObject]
            ELSE IF /\ decryptedTitle.text = ""
                    /\ decryptedContent.text = ""
                    /\ Truthy(noteData.title)
                    /\ Truthy(noteData.content)
            THEN [status |-> "error", note |-> EmptyObject]
            ELSE [status |-> "ok",
                  note |-> [noteData EXCEPT !.title = Str(decryptedTitle.text),
                                            !.content = Str(decryptedContent.text),
                                            !.tags = Arr(decryptedTags),
                                            !.encrypted = "false"]]

-----------------------------------------------------------------------------
(* indexedDB.js, as functions of the tables *)

Put(table, row) ==
    [k \in (DOMAIN table) \cup {row.id} |-> IF k = row.id THEN row ELSE table[k]]

Delete(table, id) == [k \in (DOMAIN table) \ {id} |-> table[k]]

saveNoteLocally(table, note) ==
    Put(table, [note EXCEPT !.syncStatus = "synced"])

\* Table.update: modifies the row when it exists, otherwise changes nothing
notesUpdate(table, noteId, updates) ==
    IF noteId \in DOMAIN table
    THEN [table EXCEPT ![noteId] =
            [Spread(table[noteId], updates) EXCEPT !.id = noteId, !.syncStatus = "pending"]]
    ELSE table

addToPendingSync(queue, opId, noteId, action, t) ==
    Append(queue, [id |-> opId, noteId |-> noteId, action |-> action, timestamp |-> t])

\* variant: the rows are handed back newest first
getPendingSyncNewestFirst(queue) == [k \in 1..Len(queue) |-> queue[Len(queue) + 1 - k]]

getPendingSync(queue) == queue

Range(seq) == {seq[k] : k \in 1..Len(seq)}

\* variant: the bulk delete is lost
clearPendingSyncLost(queue, ids) == queue

clearPendingSync(queue, ids) ==
    SelectSeq(queue, LAMBDA op : \A k \in 1..Len(ids) : ids[k] # op.id)

-----------------------------------------------------------------------------
(* firebase.js, as functions of the notes collection *)

saveNote(coll, uid, noteData, noteId, t) ==
    Put(coll, [Spread(EmptyObject, noteData) EXCEPT
                 !.id = noteId, !.userId = uid,
                 !.createdAt = ServerTimestamp(t), !.updatedAt = ServerTimestamp(t)])

\* updateDoc rejects when the document does not exist
updateNoteExists(coll, noteId) == noteId \in DOMAIN coll

updateNote(coll, noteId, noteData, t) ==
    [coll EXCEPT ![noteId] =
        [Spread(coll[noteId], noteData) EXCEPT
            !.id = noteId, !.updatedAt = ServerTimestamp(t)]]

deleteFirebaseNote(coll, noteId) == Delete(coll, noteId)

\* query(notesRef, orderBy('updatedAt', 'desc')): Firestore orders Timestamps
RECURSIVE SortByUpdatedAtDesc(_)
SortByUpdatedAtDesc(S) ==
    IF S = {} THEN <<>>
    ELSE LET m == CHOOSE x \in S : \A y \in S : Millis(x.updatedAt) >= Millis(y.updatedAt)
         IN <<m>> \o SortByUpdatedAtDesc(S \ {m})

getNotes(coll, uid) ==
    SortByUpdatedAtDesc({coll[k] : k \in {j \in DOMAIN coll : coll[j].userId = uid}})

\* for (const note of encryptedNotes) await notesDB.saveNoteLocally(note)
RECURSIVE CacheNotes(_, _)
CacheNotes(table, list) ==
    IF list = <<>> THEN table
    ELSE CacheNotes(saveNoteLocally(table, Head(list)), Tail(list))

\* a remote call can only be acknowledged while the network is up
RemoteOutcomes == IF isOffline THEN {FALSE} ELSE BOOLEAN

-----------------------------------------------------------------------------
(* history records *)

NoCall == [by |-> "none", action |-> "none", noteId |-> NoId, data |-> NoData,
           ok |-> FALSE, opId |-> 0]
CallRecord(by, action, noteId, data, ok, opId) ==
    [by |-> by, action |-> action, noteId |-> noteId, data |-> data,
     ok |-> ok, opId |-> opId]

CountCreate(noteId) ==
    [k \in (DOMAIN createCalls) \cup {noteId} |->
        IF k = noteId
        THEN (IF k \in DOMAIN createCalls THEN createCalls[k] ELSE 0) + 1
        ELSE createCalls[k]]

RecordPayload(opId, data) ==
    [k \in (DOMAIN enqueuedPayload) \cup {opId} |->
        IF k = opId THEN data ELSE enqueuedPayload[k]]

-----------------------------------------------------------------------------
(* the mutation paths shared by NoteEditor, NotesList and useNotes *)

\* create: offline -> temporary id + saveNoteLocally; online -> saveNote, then cache
CreatePath(encryptedNote, ok) ==
    IF isOffline
    THEN LET tempId == OfflineId(now)
             local == [encryptedNote EXCEPT !.id = tempId, !.syncStatus = "pending"]
         IN /\ notes' = saveNoteLocally(notes, local)
            /\ lastCall' = NoCall
            /\ UNCHANGED <<pendingSync, nextOpId, remote, docCounter, createCalls, enqueuedPayload>>
    ELSE LET newId == DocId(docCounter + 1)
         IN /\ lastCall' = CallRecord("direct", "create", newId, encryptedNote, ok, 0)
            /\ IF ok
               THEN /\ remote' = saveNote(remote, user, encryptedNote, newId, now)
                    /\ docCounter' = docCounter + 1
                    /\ createCalls' = CountCreate(newId)
                    /\ notes' = saveNoteLocally(notes, [encryptedNote EXCEPT !.id = newId])
               ELSE UNCHANGED <<remote, docCounter, createCalls, notes>>
            /\ UNCHANGED <<pendingSync, nextOpId, enqueuedPayload>>

\* how the two IndexedDB writes of a local mutation end: both commit, the
\* notes write throws, or the notes write commits and pendingSync.add throws
WriteOutcomes == {"ok", "note-failed", "queue-failed"}

\* updateNoteLocally: `await this.notes.update(...)`, then
\* `await this.addToPendingSync(noteId, 'update')`, each in a transaction of
\* its own; a throw of the first skips the second
updateNoteLocally(id, updates, io) ==
    /\ notes' = IF io = "note-failed" THEN notes ELSE notesUpdate(notes, id, updates)
    /\ IF io = "ok"
       THEN /\ pendingSync' = addToPendingSync(pendingSync, nextOpId, id, "update", now)
            /\ nextOpId' = nextOpId + 1
            /\ enqueuedPayload' = RecordPayload(nextOpId, updates)
       ELSE UNCHANGED <<pendingSync, nextOpId, enqueuedPayload>>

\* update: offline -> updateNoteLocally; online -> updateNote, then cache
UpdatePath(id, localUpdates, encryptedNote, ok) ==
    IF isOffline
    THEN /\ updateNoteLocally(id, localUpdates, "ok")
         /\ lastCall' = NoCall
         /\ UNCHANGED <<remote, docCounter, createCalls>>
    ELSE LET done == ok /\ updateNoteExists(remote, id)
         IN /\ lastCall' = CallRecord("direct", "update", id, encryptedNote, done, 0)
            /\ IF done
               THEN /\ remote' = updateNote(remote, id, encryptedNote, now)
                    /\ notes' = saveNoteLocally(notes, [encryptedNote EXCEPT !.id = id])
               ELSE UNCHANGED <<remote, notes>>
            /\ UNCHANGED <<pendingSync, nextOpId, docCounter, createCalls, enqueuedPayload>>

\* deleteNoteLocally: `await this.notes.delete(noteId)`, then
\* `await this.addToPendingSync(noteId, 'delete')` (the history keeps who asked)
deleteNoteLocally(id, io) ==
    /\ notes' = IF io = "note-failed" THEN notes ELSE Delete(notes, id)
    /\ IF io = "ok"
       THEN /\ pendingSync' = addToPendingSync(pendingSync, nextOpId, id, "delete", now)
            /\ nextOpId' = nextOpId + 1
            /\ enqueuedPayload' = RecordPayload(nextOpId, [NoData EXCEPT !.userId = user])
       ELSE UNCHANGED <<pendingSync, nextOpId, enqueuedPayload>>

\* delete: offline -> deleteNoteLocally; online -> deleteDoc, then deleteNoteLocally
DeletePath(id, ok) ==
    IF isOffline
    THEN /\ deleteNoteLocally(id, "ok")
         /\ lastCall' = NoCall
         /\ UNCHANGED <<remote, docCounter, createCalls>>
    ELSE /\ lastCall' = CallRecord("direct", "delete", id, NoData, ok, 0)
         /\ IF ok
            THEN /\ remote' = deleteFirebaseNote(remote, id)
                 /\ deleteNoteLocally(id, "ok")
            ELSE UNCHANGED <<remote, notes, pendingSync, nextOpId, enqueuedPayload>>
         /\ UNCHANGED <<docCounter, createCalls>>

\* the ids a user can open or delete: listed from the cache or from Firestore
KnownIds ==
    {id \in DOMAIN notes : notes[id].userId = user}
       \cup {id \in DOMAIN remote : remote[id].userId = user}

-----------------------------------------------------------------------------
(* NoteEditor.handleSave, useNotes.createNote / updateExistingNote /       *)
(* deleteNote, NotesList.handleDelete                                      *)

EditorNote(input, uid, t) ==
    NoteObject(NoId, uid, Str(input.title), Str(input.content), Arr(input.tags),
               "undefined", 0, t, "undefined")

\* NoteEditor.handleSave; id = NoId on the /notes/new route
handleSave(input, id, ok) ==
    /\ user # NoUser
    /\ now <= MaxClock
    /\ IF Trim(input.title) = "" /\ Trim(input.content) = ""
       THEN UNCHANGED vars
       ELSE IF KeyInUse(masterKey, sessionKey) = NoKey
       THEN UNCHANGED vars
       ELSE LET key == KeyInUse(masterKey, sessionKey)
                encryptedNote == encryptNote(EditorNote(input, user, now), key, 3 * now)
            IN /\ masterKey' = key
               /\ keyCleared' = IF masterKey = NoKey THEN FALSE ELSE keyCleared
               /\ now' = now + 1
               /\ IF id # NoId
                  THEN UpdatePath(id,
                                  [encryptedNote EXCEPT !.id = id, !.syncStatus = "pending"],
                                  encryptedNote, ok)
                  ELSE CreatePath([encryptedNote EXCEPT !.createdAt = now], ok)
               /\ UNCHANGED <<handler, crypto, accountVars, isOffline, user, sessionKey, drain, lastDone>>

\* useNotes.createNote
createNote(input, ok) ==
    /\ user # NoUser
    /\ now <= MaxClock
    /\ KeyInUse(masterKey, sessionKey) # NoKey
    /\ LET key == KeyInUse(masterKey, sessionKey)
           newNote == [EditorNote(input, user, now) EXCEPT !.createdAt = now]
       IN /\ masterKey' = key
          /\ now' = now + 1
          /\ CreatePath(encryptNote(newNote, key, 3 * now), ok)
          /\ UNCHANGED <<handler, crypto, accountVars, keyCleared, isOffline, user, sessionKey, drain, lastDone>>

\* useNotes.updateExistingNote
updateExistingNote(id, input, ok) ==
    /\ user # NoUser
    /\ now <= MaxClock
    /\ KeyInUse(masterKey, sessionKey) # NoKey
    /\ LET key == KeyInUse(masterKey, sessionKey)
           encryptedNote == encryptNote(EditorNote(input, user, now), key, 3 * now)
       IN /\ masterKey' = key
          /\ now' = now + 1
          /\ UpdatePath(id, encryptedNote, encryptedNote, ok)
          /\ UNCHANGED <<handler, crypto, accountVars, keyCleared, isOffline, user, sessionKey, drain, lastDone>>

\* useNotes.deleteNote
deleteNote(id, ok) ==
    /\ user # NoUser
    /\ now <= MaxClock
    /\ now' = now + 1
    /\ DeletePath(id, ok)
    /\ UNCHANGED <<handler, crypto, accountVars, keyCleared, isOffline, user, masterKey, sessionKey, drain, lastDone>>

\* NotesList.handleDelete, once the confirm dialog is accepted
handleDelete(id, ok) ==
    /\ user # NoUser
    /\ now <= MaxClock
    /\ now' = now + 1
    /\ DeletePath(id, ok)
    /\ UNCHANGED <<handler, crypto, accountVars, keyCleared, isOffline, user, masterKey, sessionKey, drain, lastDone>>

\* the order of two primary keys of the notes table (ids are strings; the
\* model orders auto ids before temporary ids and each kind by its number)
KeyBefore(a, b) == IF a[1] = b[1] THEN a[2] < b[2] ELSE a[1] = "doc"

\* where('userId').equals(userId).reverse(): the rows of the index entry,
\* by primary key, last first
RECURSIVE ReverseCollection(_)
ReverseCollection(S) ==
    IF S = {} THEN <<>>
    ELSE LET m == CHOOSE x \in S : \A y \in S \ {x} : KeyBefore(y.id, x.id)
         IN <<m>> \o ReverseCollection(S \ {m})

\* one step of Array.prototype.sort (stable) with Dexie's descending
\* comparator on updatedAt: x goes before the first row that compares less
InsertDescending(sorted, x) ==
    LET less == {k \in 1..Len(sorted) : JsLess(sorted[k].updatedAt, x.updatedAt)}
    IN IF less = {} THEN Append(sorted, x)
       ELSE LET k == CHOOSE i \in less : \A j \in less : i <= j
            IN SubSeq(sorted, 1, k - 1) \o <<x>> \o SubSeq(sorted, k, Len(sorted))

\* Collection.sortBy('updatedAt') on a reversed collection
RECURSIVE sortBy(_, _)
sortBy(rows, sorted) ==
    IF rows = <<>> THEN sorted
    ELSE sortBy(Tail(rows), InsertDescending(sorted, Head(rows)))

\* getLocalNotes: where('userId').equals(userId).reverse().sortBy('updatedAt')
getLocalNotes(table, userId) ==
    sortBy(ReverseCollection({table[k] : k \in {j \in DOMAIN table : table[j].userId = userId}}),
           <<>>)

\* NotesList.loadNotes / useNotes.loadNotes: online, fetch and cache every
\* document; then decrypt what was listed (decryptNote falls back to the
\* session copy of the key)
loadNotes(ok) ==
    /\ user # NoUser
    /\ LET listed == IF isOffline THEN getLocalNotes(notes, user)
                     ELSE IF ok THEN getNotes(remote, user) ELSE <<>>
       IN /\ notes' = IF isOffline THEN notes ELSE CacheNotes(notes, listed)
          /\ masterKey' = IF listed # <<>> THEN KeyInUse(masterKey, sessionKey)
                          ELSE masterKey
    /\ lastCall' = NoCall
    /\ UNCHANGED <<handler, crypto, accountVars, keyCleared, isOffline, user, sessionKey, now,
                   pendingSync, nextOpId, remote, docCounter, drain, lastDone,
                   createCalls, enqueuedPayload>>

-----------------------------------------------------------------------------
(* the online paths of the handlers step by step: the handler runs up to    *)
(* its awaited remote call, and goes on to its Local Store write when the   *)
(* call has returned; user.uid is the one its closure holds                 *)

\* NoteEditor.handleSave online, up to `await saveNote(...)` / `await updateNote(...)`
SaveStart(input, id) ==
    /\ user # NoUser
    /\ ~isOffline
    /\ handler = IdleHandler
    /\ now <= MaxClock
    /\ ~(Trim(input.title) = "" /\ Trim(input.content) = "")
    /\ KeyInUse(masterKey, sessionKey) # NoKey
    /\ LET key == KeyInUse(masterKey, sessionKey)
           encryptedNote == encryptNote(EditorNote(input, user, now), key, 3 * now)
       IN /\ masterKey' = key
          /\ keyCleared' = IF masterKey = NoKey THEN FALSE ELSE keyCleared
          /\ handler' = [kind |-> "save", uid |-> user, id |-> id,
                         note |-> IF id = NoId THEN [encryptedNote EXCEPT !.createdAt = now]
                                  ELSE encryptedNote]
    /\ now' = now + 1
    /\ lastCall' = NoCall
    /\ UNCHANGED <<crypto, accountVars, isOffline, user, sessionKey, notes, pendingSync,
                   nextOpId, remote, docCounter, drain, lastDone, createCalls,
                   enqueuedPayload>>

\* the awaited saveNote / updateNote returns or throws; on return
\* `await notesDB.saveNoteLocally(...)` follows
SaveSettles(ok) ==
    /\ handler.kind = "save"
    /\ handler' = IdleHandler
    /\ IF handler.id = NoId
       THEN LET newId == DocId(docCounter + 1)
            IN /\ lastCall' = CallRecord("direct", "create", newId, handler.note, ok, 0)
               /\ IF ok
                  THEN /\ remote' = saveNote(remote, handler.uid, handler.note, newId, now)
                       /\ docCounter' = docCounter + 1
                       /\ createCalls' = CountCreate(newId)
                       /\ notes' = saveNoteLocally(notes, [handler.note EXCEPT !.id = newId])
                  ELSE UNCHANGED <<remote, docCounter, createCalls, notes>>
       ELSE LET done == ok /\ updateNoteExists(remote, handler.id)
            IN /\ lastCall' = CallRecord("direct", "update", handler.id, handler.note, done, 0)
               /\ IF done
                  THEN /\ remote' = updateNote(remote, handler.id, handler.note, now)
                       /\ notes' = saveNoteLocally(notes, [handler.note EXCEPT !.id = handler.id])
                  ELSE UNCHANGED <<remote, notes>>
               /\ UNCHANGED <<docCounter, createCalls>>
    /\ UNCHANGED <<crypto, accountVars, keyCleared, isOffline, user, masterKey, sessionKey,
                   now, pendingSync, nextOpId, drain, lastDone, enqueuedPayload>>

\* NotesList.handleDelete online, up to `await deleteNote(user.uid, noteId)`
DeleteStart(id) ==
    /\ user # NoUser
    /\ ~isOffline
    /\ handler = IdleHandler
    /\ now <= MaxClock
    /\ now' = now + 1
    /\ handler' = [IdleHandler EXCEPT !.kind = "delete", !.uid = user, !.id = id]
    /\ lastCall' = NoCall
    /\ UNCHANGED <<crypto, accountVars, keyCleared, isOffline, user, masterKey, sessionKey,
                   notes, pendingSync, nextOpId, remote, docCounter, drain, lastDone,
                   createCalls, enqueuedPayload>>

\* the awaited deleteNote returns or throws; on return
\* `await notesDB.deleteNoteLocally(noteId)` follows
DeleteSettles(ok) ==
    /\ handler.kind = "delete"
    /\ handler' = IdleHandler
    /\ lastCall' = CallRecord("direct", "delete", handler.id, NoData, ok, 0)
    /\ IF ok
       THEN /\ remote' = deleteFirebaseNote(remote, handler.id)
            /\ deleteNoteLocally(handler.id, "ok")
       ELSE UNCHANGED <<remote, notes, pendingSync, nextOpId, enqueuedPayload>>
    /\ UNCHANGED <<crypto, accountVars, keyCleared, isOffline, user, masterKey, sessionKey,
                   now, docCounter, drain, lastDone, createCalls>>

\* loadNotes online, up to `await getNotes(user.uid)`
LoadStart ==
    /\ user # NoUser
    /\ ~isOffline
    /\ handler = IdleHandler
    /\ handler' = [IdleHandler EXCEPT !.kind = "load", !.uid = user]
    /\ lastCall' = NoCall
    /\ UNCHANGED <<crypto, accountVars, keyCleared, isOffline, user, masterKey, sessionKey,
                   now, notes, pendingSync, nextOpId, remote, docCounter, drain, lastDone,
                   createCalls, enqueuedPayload>>

\* the awaited getNotes returns or throws; on return every note fetched is
\* cached with saveNoteLocally and decrypted for display
LoadSettles(ok) ==
    /\ handler.kind = "load"
    /\ handler' = IdleHandler
    /\ LET listed == IF ok THEN getNotes(remote, handler.uid) ELSE <<>>
       IN /\ notes' = CacheNotes(notes, listed)
          /\ masterKey' = IF listed # <<>> THEN KeyInUse(masterKey, sessionKey)
                          ELSE masterKey
    /\ lastCall' = NoCall
    /\ UNCHANGED <<crypto, accountVars, keyCleared, isOffline, user, sessionKey, now,
                   pendingSync, nextOpId, remote, docCounter, drain, lastDone,
                   createCalls, enqueuedPayload>>

-----------------------------------------------------------------------------
(* the drain: notesDB.syncWithFirebase driven by App.syncNotes ("app") and *)
(* by useNotes.syncNotes ("hook").  A step ends where the JavaScript       *)
(* awaits IndexedDB or the network; code between two awaits is one step.   *)

Drains == {"app", "hook"}

NoDrain == [startClock |-> 0, synced |-> 0, failed |-> 0]

IdleDrain ==
    [pc |-> "idle", pending |-> <<>>, i |-> 1, inflight |-> {}, issued |-> <<>>,
     syncedIds |-> <<>>, calls |-> <<>>, startClock |-> 0, prev |-> NoDrain]

\* a syncNotes call passes its guard and reaches `await syncWithFirebase(...)`
Started == [IdleDrain EXCEPT !.pc = "read"]

CanStart(d) == user # NoUser /\ drain[d].pc = "idle"

\* the useNotes.syncNotes calls that can be running at a time (all but App's)
HookDrains == (DOMAIN drain) \ {"app"}

\* the call the reconnect effect makes: it runs beside any call still in flight
EffectCall ==
    IF CanStart("hook") THEN {"hook"} ELSE {d \in HookDrains : CanStart(d)}

\* window 'online' event: App.handleOnline, then the useNotes reconnect effect
GoOnline ==
    /\ isOffline
    /\ isOffline' = FALSE
    /\ drain' = [d \in DOMAIN drain |->
                    IF CanStart(d) /\ (d = "app" \/ d \in EffectCall)
                    THEN Started ELSE drain[d]]
    /\ lastCall' = NoCall
    /\ UNCHANGED <<handler, crypto, accountVars, keyCleared, user, masterKey, sessionKey, now, notes, pendingSync, nextOpId,
                   remote, docCounter, lastDone, createCalls,
                   enqueuedPayload>>

\* window 'offline' event
GoOffline ==
    /\ ~isOffline
    /\ isOffline' = TRUE
    /\ lastCall' = NoCall
    /\ UNCHANGED <<handler, crypto, accountVars, keyCleared, user, masterKey, sessionKey, now, notes, pendingSync, nextOpId,
                   remote, docCounter, drain, lastDone, createCalls,
                   enqueuedPayload>>

\* useNotes.syncNotes called on demand (it is returned by the hook)
syncNotes(d) ==
    /\ d \in HookDrains
    /\ ~isOffline
    /\ CanStart(d)
    /\ drain' = [drain EXCEPT ![d] = Started]
    /\ lastCall' = NoCall
    /\ UNCHANGED <<handler, crypto, accountVars, keyCleared, isOffline, user, masterKey, sessionKey, now, notes, pendingSync,
                   nextOpId, remote, docCounter, lastDone, createCalls, enqueuedPayload>>

\* return { total, synced, failed }
Result(dr) ==
    [total |-> Len(dr.pending),
     synced |-> Len(dr.syncedIds),
     failed |-> Len(dr.pending) - Len(dr.syncedIds)]

\* what is remembered of a drain once syncWithFirebase has returned
Summary(dr) ==
    [startClock |-> dr.startClock, synced |-> Result(dr).synced, failed |-> Result(dr).failed]

\* const pending = await this.getPendingSync(); const syncedIds = [];
ReadQueue(queue, t, prev) ==
    [IdleDrain EXCEPT !.pc = "loop", !.pending = getPendingSync(queue),
                      !.startClock = t, !.prev = prev]

\* for (const operation of pending) { await syncFunction(operation) ... }:
\* the loop calls syncFunction for the next operation once nothing is awaited
IssueNext(dr) ==
    IF dr.inflight = {} /\ dr.i <= Len(dr.pending)
    THEN [dr EXCEPT !.inflight = {dr.i},
                    !.issued = Append(@, dr.pending[dr.i].id),
                    !.i = @ + 1]
    ELSE dr

\* syncedIds once App.syncNotes' syncFunction, which only logs, ran for every operation
LoggedAll(dr) ==
    [dr EXCEPT !.issued = [k \in 1..Len(dr.pending) |-> dr.pending[k].id],
               !.syncedIds = [k \in 1..Len(dr.pending) |-> dr.pending[k].id],
               !.i = Len(dr.pending) + 1]

\* after the loop: await clearPendingSync when something synced, else return at once
AfterLoop(dr, next) ==
    IF dr.inflight = {} /\ dr.i > Len(dr.pending)
    THEN (IF Len(dr.syncedIds) > 0 THEN [dr EXCEPT !.pc = "clear"]
          ELSE [dr EXCEPT !.pc = next])
    ELSE dr

\* App.syncNotes: read the queue, run the logging syncFunction over it
AppDrainRead ==
    /\ drain["app"].pc = "read"
    /\ LET dr == AfterLoop(LoggedAll(ReadQueue(pendingSync, now, lastDone)), "done")
       IN /\ drain' = [drain EXCEPT !["app"] = IF dr.pc = "done" THEN IdleDrain ELSE dr]
          /\ lastDone' = IF dr.pc = "done" THEN Summary(dr) ELSE lastDone
    /\ lastCall' = NoCall
    /\ UNCHANGED <<handler, crypto, accountVars, keyCleared, isOffline, user, masterKey, sessionKey, now, notes, pendingSync,
                   nextOpId, remote, docCounter, createCalls,
                   enqueuedPayload>>

\* useNotes.syncNotes: read the queue, call syncFunction for the first operation
HookDrainRead(d) ==
    /\ d \in HookDrains
    /\ drain[d].pc = "read"
    /\ LET dr == AfterLoop(IssueNext(ReadQueue(pendingSync, now, lastDone)), "reload")
       IN /\ drain' = [drain EXCEPT ![d] = dr]
          /\ lastDone' = IF dr.pc = "reload" THEN Summary(dr) ELSE lastDone
    /\ lastCall' = NoCall
    /\ UNCHANGED <<handler, crypto, accountVars, keyCleared, isOffline, user, masterKey, sessionKey, now, notes, pendingSync,
                   nextOpId, remote, docCounter, createCalls,
                   enqueuedPayload>>

\* operation.data: the pendingSync row has no such property
OperationData(op) == NoData

\* the awaited saveNote / updateNote / deleteNote of useNotes.syncNotes' syncFunction
\* returns or throws; then the loop goes on
HookDrainSettle(d, k, ok) ==
    /\ d \in HookDrains
    /\ drain[d].pc = "loop"
    /\ k \in drain[d].inflight
    /\ LET op == drain[d].pending[k]
           data == OperationData(op)
           done == ok /\ (op.action = "update" => updateNoteExists(remote, op.noteId))
           newId == DocId(docCounter + 1)
           settled == [drain[d] EXCEPT
                          !.inflight = @ \ {k},
                          !.calls = Append(@, [opId |-> op.id, ok |-> done]),
                          !.syncedIds = IF done THEN Append(@, op.id) ELSE @]
           dr == AfterLoop(IssueNext(settled), "reload")
       IN /\ lastCall' = CallRecord("drain", op.action, op.noteId, data, done, op.id)
          /\ drain' = [drain EXCEPT ![d] = dr]
          /\ lastDone' = IF dr.pc = "reload" THEN Summary(dr) ELSE lastDone
          /\ remote' = IF ~done THEN remote
                       ELSE IF op.action = "create"
                            THEN saveNote(remote, user, data, newId, now)
                       ELSE IF op.action = "update"
                            THEN updateNote(remote, op.noteId, data, now)
                       ELSE deleteFirebaseNote(remote, op.noteId)
          /\ docCounter' = IF done /\ op.action = "create" THEN docCounter + 1 ELSE docCounter
          /\ createCalls' = IF done /\ op.action = "create"
                            THEN CountCreate(op.noteId) ELSE createCalls
    /\ UNCHANGED <<handler, crypto, accountVars, keyCleared, isOffline, user, masterKey, sessionKey, now, notes, pendingSync,
                   nextOpId, enqueuedPayload>>

\* await this.clearPendingSync(syncedIds); return { total, synced, failed }
DrainClear(d) ==
    /\ drain[d].pc = "clear"
    /\ pendingSync' = clearPendingSync(pendingSync, drain[d].syncedIds)
    /\ enqueuedPayload' = [k \in {op.id : op \in Range(pendingSync')} |-> enqueuedPayload[k]]
    /\ lastDone' = Summary(drain[d])
    /\ drain' = [drain EXCEPT ![d] = IF d \in HookDrains THEN [@ EXCEPT !.pc = "reload"]
                                     ELSE IdleDrain]
    /\ lastCall' = NoCall
    /\ UNCHANGED <<handler, crypto, accountVars, keyCleared, isOffline, user, masterKey, sessionKey, now, notes, nextOpId,
                   remote, docCounter, createCalls>>

\* useNotes.syncNotes: await loadNotes() after the drain (its closure saw isOffline = false)
HookDrainReload(d, ok) ==
    /\ d \in HookDrains
    /\ drain[d].pc = "reload"
    /\ notes' = IF ok /\ user # NoUser THEN CacheNotes(notes, getNotes(remote, user)) ELSE notes
    /\ drain' = [drain EXCEPT ![d] = IdleDrain]
    /\ lastCall' = NoCall
    /\ UNCHANGED <<handler, crypto, accountVars, keyCleared, isOffline, user, masterKey, sessionKey, now, pendingSync, nextOpId,
                   remote, docCounter, lastDone, createCalls,
                   enqueuedPayload>>

-----------------------------------------------------------------------------
(* accounts: Login.handleSubmit, the auth listener, App.handleLogout and    *)
(* notesDB.clearUserData                                                    *)

\* App.handleOnline alone (no useNotes hook mounted): only App.syncNotes starts
handleOnline ==
    /\ isOffline
    /\ isOffline' = FALSE
    /\ drain' = [drain EXCEPT !["app"] = IF CanStart("app") THEN Started ELSE @]
    /\ lastCall' = NoCall
    /\ UNCHANGED <<handler, crypto, accountVars, keyCleared, user, masterKey, sessionKey, now, notes,
                   pendingSync, nextOpId, remote, docCounter, lastDone, createCalls,
                   enqueuedPayload>>

\* encryptionKeys.put({ userId, salt, ... }) and the Firestore setDoc of the salt
saveEncryptionSalt(keys, userId, salt) ==
    [u \in (DOMAIN keys) \cup {userId} |-> IF u = userId THEN salt ELSE keys[u]]

\* getEncryptionSalt / getUserEncryptionSalt: the stored salt or null
getEncryptionSalt(keys, userId) == IF userId \in DOMAIN keys THEN keys[userId] ELSE "null"

\* Login.handleSubmit for account uid, taken as one step (no other handler
\* runs while it awaits); the auth listener sets the App user
handleSubmit(uid, ok) ==
    /\ user = NoUser
    /\ login.pc = "idle"
    /\ logout.pc = "idle"
    /\ uid \in DOMAIN remoteSalt
    /\ lastCall' = NoCall
    /\ IF ~ok
       THEN UNCHANGED <<handler, crypto, accountVars, keyCleared, user, masterKey, sessionKey>>
       ELSE LET stored == getEncryptionSalt(remoteSalt, uid)
                fresh == generateSalt(saltCounter + 1)
                derivedKey == deriveKeyFromPassword(Password(uid), stored, fresh)
            IN /\ derivedKey.salt = fresh => saltCounter < MaxSalts
               /\ saltCounter' = IF derivedKey.salt = fresh THEN saltCounter + 1
                                 ELSE saltCounter
               /\ user' = uid
               /\ masterKey' = derivedKey.key
               /\ keyCleared' = FALSE
               /\ remoteSalt' = IF stored = "null"
                                THEN saveEncryptionSalt(remoteSalt, uid, derivedKey.salt)
                                ELSE remoteSalt
               /\ encryptionKeys' =
                     saveEncryptionSalt(encryptionKeys, uid,
                                        IF stored = "null" THEN derivedKey.salt ELSE stored)
               /\ sessionKey' = masterKey'
               /\ UNCHANGED <<handler, crypto, appVariant, auth, logout, login>>
    /\ UNCHANGED <<isOffline, now, notes, pendingSync, nextOpId, remote, docCounter,
                   drain, lastDone, createCalls, enqueuedPayload>>

\* Login.handleSubmit(uid) step by step: `await loginUser(...)` settles; on
\* success the auth listener sets the App user
LoginSignIn(uid, ok) ==
    /\ user = NoUser
    /\ login.pc = "idle"
    /\ logout.pc = "idle"
    /\ lastCall' = NoCall
    /\ IF ok /\ uid \in DOMAIN remoteSalt
       THEN /\ user' = uid
            /\ login' = [IdleLogin EXCEPT !.pc = "getSalt", !.uid = uid, !.by = "login"]
       ELSE /\ login' = [IdleLogin EXCEPT !.result = "failed"]
            /\ UNCHANGED user
    /\ UNCHANGED <<handler, crypto, encryptionKeys, remoteSalt, appVariant, auth, logout, saltCounter,
                   keyCleared, masterKey, sessionKey, isOffline, now, notes, pendingSync,
                   nextOpId, remote, docCounter, drain, lastDone, createCalls,
                   enqueuedPayload>>

\* `await getUserEncryptionSalt(user.uid)` settles.  With a stored salt the
\* key is derived and set, the salt cached and the key put in sessionStorage;
\* with none a key is derived from a new salt and set, and
\* saveUserEncryptionSalt is awaited
LoginGetSalt(ok) ==
    /\ login.pc = "getSalt"
    /\ lastCall' = NoCall
    /\ IF ~ok
       THEN /\ login' = [IdleLogin EXCEPT !.result = "failed"]
            /\ UNCHANGED <<masterKey, sessionKey, keyCleared, encryptionKeys, saltCounter>>
       ELSE LET salt == getEncryptionSalt(remoteSalt, login.uid)
                fresh == generateSalt(saltCounter + 1)
                derivedKey == deriveKeyFromPassword(Password(login.uid), salt, fresh)
            IN /\ derivedKey.salt = fresh => saltCounter < MaxSalts
               /\ saltCounter' = IF derivedKey.salt = fresh THEN saltCounter + 1 ELSE saltCounter
               /\ masterKey' = derivedKey.key
               /\ keyCleared' = FALSE
               /\ IF salt = "null"
                  THEN /\ login' = [login EXCEPT !.pc = "saveSalt", !.salt = derivedKey.salt]
                       /\ UNCHANGED <<sessionKey, encryptionKeys>>
                  ELSE /\ encryptionKeys' = saveEncryptionSalt(encryptionKeys, login.uid, salt)
                       /\ sessionKey' = masterKey'
                       /\ login' = [login EXCEPT !.pc = "idle", !.salt = salt, !.result = "ok"]
    /\ UNCHANGED <<handler, crypto, remoteSalt, appVariant, auth, logout, user, isOffline, now, notes,
                   pendingSync, nextOpId, remote, docCounter, drain, lastDone, createCalls,
                   enqueuedPayload>>

\* Register.handleSubmit(uid) up to `await saveUserEncryptionSalt(...)`:
\* registerUser creates the account (the auth listener sets the App user), a
\* key is derived from a new salt and set
Register(uid, ok) ==
    /\ user = NoUser
    /\ login.pc = "idle"
    /\ logout.pc = "idle"
    /\ uid \notin DOMAIN remoteSalt
    /\ saltCounter < MaxSalts
    /\ lastCall' = NoCall
    /\ IF ok
       THEN LET fresh == generateSalt(saltCounter + 1)
                derivedKey == deriveKeyFromPassword(Password(uid), "null", fresh)
            IN /\ remoteSalt' = saveEncryptionSalt(remoteSalt, uid, "null")
               /\ user' = uid
               /\ saltCounter' = saltCounter + 1
               /\ masterKey' = derivedKey.key
               /\ keyCleared' = FALSE
               /\ login' = [IdleLogin EXCEPT !.pc = "saveSalt", !.uid = uid,
                                             !.salt = derivedKey.salt, !.by = "register"]
       ELSE /\ login' = [IdleLogin EXCEPT !.result = "failed"]
            /\ UNCHANGED <<remoteSalt, user, saltCounter, masterKey, keyCleared>>
    /\ UNCHANGED <<handler, crypto, encryptionKeys, appVariant, auth, logout, sessionKey, isOffline, now,
                   notes, pendingSync, nextOpId, remote, docCounter, drain, lastDone,
                   createCalls, enqueuedPayload>>

\* `await saveUserEncryptionSalt(uid, salt)` of a first login or of a
\* registration settles; then the salt is cached locally and the key put in
\* sessionStorage (Login reads it back with getMasterKey())
LoginSaveSalt(ok) ==
    /\ login.pc = "saveSalt"
    /\ lastCall' = NoCall
    /\ IF ok
       THEN /\ remoteSalt' = saveEncryptionSalt(remoteSalt, login.uid, login.salt)
            /\ encryptionKeys' = saveEncryptionSalt(encryptionKeys, login.uid, login.salt)
            /\ sessionKey' = IF login.by = "login" THEN masterKey
                             ELSE PBKDF2(Password(login.uid), login.salt)
            /\ login' = [login EXCEPT !.pc = "idle", !.result = "ok"]
       ELSE /\ login' = [IdleLogin EXCEPT !.result = "failed"]
            /\ UNCHANGED <<remoteSalt, encryptionKeys, sessionKey>>
    /\ UNCHANGED <<handler, crypto, appVariant, auth, logout, saltCounter, keyCleared, user, masterKey,
                   isOffline, now, notes, pendingSync, nextOpId, remote, docCounter, drain,
                   lastDone, createCalls, enqueuedPayload>>

\* Login.handleSubmit(uid): `await loginUser(...)` settles; on success
\* Firebase calls the auth listener, which runs as a step of its own
AuthSignIn(uid, ok) ==
    /\ user = NoUser
    /\ login.pc = "idle"
    /\ logout.pc = "idle"
    /\ auth.pc = "idle"
    /\ lastCall' = NoCall
    /\ IF ok /\ uid \in DOMAIN remoteSalt
       THEN /\ login' = [IdleLogin EXCEPT !.pc = "getSalt", !.uid = uid, !.by = "login"]
            /\ auth' = [pc |-> "setup", uid |-> uid, ready |-> FALSE]
       ELSE /\ login' = [IdleLogin EXCEPT !.result = "failed"]
            /\ UNCHANGED auth
    /\ UNCHANGED <<handler, crypto, encryptionKeys, remoteSalt, appVariant, logout, saltCounter, user,
                   keyCleared, masterKey, sessionKey, isOffline, now, notes, pendingSync,
                   nextOpId, remote, docCounter, drain, lastDone, createCalls,
                   enqueuedPayload>>

\* what setupEncryption returns: true with a key in sessionStorage; false
\* when a salt is found locally or remotely (the password is needed again)
\* or when the remote read throws; true when no salt is stored anywhere
setupEncryption(sk, local, stored, ok) ==
    IF sk # NoKey THEN TRUE
    ELSE IF local # "null" THEN FALSE
    ELSE IF ~ok THEN FALSE
    ELSE stored = "null"

\* the onAuthChange callback of part_001 for a signed-in user:
\* setupEncryption, then setUser({ uid, ..., encryptionReady })
AuthListener(ok) ==
    /\ auth.pc = "setup"
    /\ LET local == getEncryptionSalt(encryptionKeys, auth.uid)
           stored == getEncryptionSalt(remoteSalt, auth.uid)
       IN /\ auth' = [auth EXCEPT !.pc = "idle",
                                  !.ready = setupEncryption(sessionKey, local, stored, ok)]
          /\ masterKey' = IF sessionKey # NoKey THEN sessionKey ELSE masterKey
          /\ keyCleared' = IF sessionKey # NoKey THEN FALSE ELSE keyCleared
          /\ encryptionKeys' =
                IF sessionKey = NoKey /\ local = "null" /\ ok /\ stored # "null"
                THEN saveEncryptionSalt(encryptionKeys, auth.uid, stored)
                ELSE encryptionKeys
    /\ user' = auth.uid
    /\ lastCall' = NoCall
    /\ UNCHANGED <<handler, crypto, remoteSalt, appVariant, logout, login, saltCounter, sessionKey,
                   isOffline, now, notes, pendingSync, nextOpId, remote, docCounter, drain,
                   lastDone, createCalls, enqueuedPayload>>

\* the notes routes render for the App user (route guards of part_001)
NotesRoutesShown == user # NoUser /\ auth.pc = "idle" /\ auth.uid = user /\ auth.ready

\* what the sign-out paths leave in sessionStorage: only part_001 removes 'encKey'
sessionAfterClear(variant, sk) == IF variant = "part_001" THEN NoKey ELSE sk

\* the auth listener is called with null (sign-out in another tab, revoked token)
onAuthChange ==
    /\ user # NoUser
    /\ logout.pc = "idle"
    /\ user' = NoUser
    /\ masterKey' = NoKey
    /\ keyCleared' = TRUE
    /\ sessionKey' = sessionAfterClear(appVariant, sessionKey)
    /\ lastCall' = NoCall
    /\ UNCHANGED <<handler, crypto, accountVars, isOffline, now, notes, pendingSync, nextOpId, remote,
                   docCounter, drain, lastDone, createCalls, enqueuedPayload>>

\* variant: the three deletes run outside a transaction; a failure after the
\* first leaves the notes deleted
clearUserDataNotAtomic(db, userId, ok) ==
    IF ok
    THEN [notes |-> [k \in {j \in DOMAIN db.notes : db.notes[j].userId # userId} |-> db.notes[k]],
          pendingSync |-> <<>>,
          encryptionKeys |-> [u \in (DOMAIN db.encryptionKeys) \ {userId} |-> db.encryptionKeys[u]]]
    ELSE [db EXCEPT !.notes = [k \in {j \in DOMAIN db.notes : db.notes[j].userId # userId} |-> db.notes[k]]]

\* clearUserData: one 'rw' transaction over the three tables; it commits
\* (ok) or aborts and leaves them as they were
clearUserData(db, userId, ok) ==
    IF ok
    THEN [notes |-> [k \in {j \in DOMAIN db.notes : db.notes[j].userId # userId} |-> db.notes[k]],
          pendingSync |-> <<>>,
          encryptionKeys |-> [u \in (DOMAIN db.encryptionKeys) \ {userId} |-> db.encryptionKeys[u]]]
    ELSE db

\* App.handleLogout up to `await notesDB.clearUserData(user.uid)`
handleLogout ==
    /\ user # NoUser
    /\ logout.pc = "idle"
    /\ logout' = [IdleLogout EXCEPT !.pc = "clearUserData", !.uid = user]
    /\ lastCall' = NoCall
    /\ UNCHANGED <<handler, crypto, encryptionKeys, remoteSalt, appVariant, auth, login, saltCounter,
                   keyCleared, isOffline, user,
                   masterKey, sessionKey, now, notes, pendingSync, nextOpId, remote,
                   docCounter, drain, lastDone, createCalls, enqueuedPayload>>

\* clearUserData settles: on success clearMasterKey (and, in part_001,
\* sessionStorage.removeItem) run and logoutUser is awaited; on failure the
\* catch block ends the logout
LogoutClearUserData(ok) ==
    /\ logout.pc = "clearUserData"
    /\ LET db == clearUserData([notes |-> notes, pendingSync |-> pendingSync,
                                encryptionKeys |-> encryptionKeys], logout.uid, ok)
       IN /\ notes' = db.notes
          /\ pendingSync' = db.pendingSync
          /\ encryptionKeys' = db.encryptionKeys
          /\ enqueuedPayload' =
                [k \in {op.id : op \in Range(db.pendingSync)} |-> enqueuedPayload[k]]
          /\ logout' = IF ok
                       THEN [logout EXCEPT
                               !.pc = "logoutUser",
                               !.removedNotes = Len(getLocalNotes(notes, logout.uid)),
                               !.removedOps = Len(pendingSync)]
                       ELSE IdleLogout
    /\ masterKey' = IF ok THEN NoKey ELSE masterKey
    /\ keyCleared' = IF ok THEN TRUE ELSE keyCleared
    /\ sessionKey' = IF ok THEN sessionAfterClear(appVariant, sessionKey) ELSE sessionKey
    /\ lastCall' = NoCall
    /\ UNCHANGED <<handler, crypto, remoteSalt, appVariant, auth, login, saltCounter, isOffline, user, now,
                   nextOpId, remote, docCounter, drain, lastDone, createCalls>>

\* logoutUser settles: on success the auth listener runs with null and
\* setUser(null) follows; on failure the catch block ends the logout
LogoutSignOut(ok) ==
    /\ logout.pc = "logoutUser"
    /\ logout' = IdleLogout
    /\ user' = IF ok THEN NoUser ELSE user
    /\ masterKey' = IF ok THEN NoKey ELSE masterKey
    /\ keyCleared' = IF ok THEN TRUE ELSE keyCleared
    /\ sessionKey' = IF ok THEN sessionAfterClear(appVariant, sessionKey) ELSE sessionKey
    /\ lastCall' = NoCall
    /\ UNCHANGED <<handler, crypto, encryptionKeys, remoteSalt, appVariant, auth, login, saltCounter,
                   isOffline, now, notes,
                   pendingSync, nextOpId, remote, docCounter, drain, lastDone,
                   createCalls, enqueuedPayload>>

-----------------------------------------------------------------------------
(* encryptionService called on one note: setMasterKey, encryptNote,         *)
(* decryptNote                                                              *)

\* no list decrypted yet
NoView == [list |-> <<>>, masterKey |-> NoKey, outs |-> <<>>, shown |-> <<>>]

\* no call made yet on note n
CryptoOn(n) ==
    [note |-> n, enc |-> <<>>, encStatus |-> "none", dec |-> NotDecrypted, salts |-> 0,
     view |-> NoView]

IdleCrypto == CryptoOn(EmptyObject)

\* the keys of the two accounts
Keys == {PBKDF2(Password(u), InitialSalt(u)) : u \in Users}

\* the plaintext notes handed to encryptNote
CryptoNotes ==
    {NoteObject(DocId(0), Uid, Str(t), Str(c), Arr(l), e, 1, 2, "pending") :
        t \in {"", "Shopping"}, c \in {"", "milk, eggs"}, l \in TagLists,
        e \in {"undefined", "false"}}

setMasterKey(key) ==
    /\ key # NoKey
    /\ masterKey' = key
    /\ keyCleared' = FALSE
    /\ UNCHANGED <<handler, crypto, accountVars, isOffline, user, sessionKey, now, notes,
                   pendingSync, nextOpId, remote, docCounter, drain, lastDone, lastCall,
                   createCalls, enqueuedPayload>>

clearMasterKey ==
    /\ masterKey # NoKey
    /\ masterKey' = NoKey
    /\ keyCleared' = TRUE
    /\ UNCHANGED <<handler, crypto, accountVars, isOffline, user, sessionKey, now, notes,
                   pendingSync, nextOpId, remote, docCounter, drain, lastDone, lastCall,
                   createCalls, enqueuedPayload>>

\* encryptionService.encryptNote(crypto.note); each AES.encrypt draws a salt.
\* With no master key and no session copy it throws the no-key error
EncryptCall ==
    /\ Len(crypto.enc) < MaxEncrypt
    /\ masterKey' = KeyInUse(masterKey, sessionKey)
    /\ crypto' = IF masterKey' = NoKey
                 THEN [crypto EXCEPT !.encStatus = "no-key"]
                 ELSE [crypto EXCEPT
                         !.enc = Append(@, encryptNote(crypto.note, masterKey', 3 + crypto.salts)),
                         !.encStatus = "ok",
                         !.salts = @ + 3]
    /\ keyCleared' = IF masterKey' # NoKey THEN FALSE ELSE keyCleared
    /\ UNCHANGED <<handler, accountVars, isOffline, user, sessionKey, now, notes,
                   pendingSync, nextOpId, remote, docCounter, drain, lastDone, lastCall,
                   createCalls, enqueuedPayload>>

\* the note decryptNote is called on: the note as given (k = 0) or its
\* k-th encrypted copy
DecryptInput(k) == IF k = 0 THEN crypto.note ELSE crypto.enc[k]

\* encryptionService.decryptNote(DecryptInput(k))
DecryptCall(k, outs) ==
    /\ k \in 0..Len(crypto.enc)
    /\ masterKey' = KeyInUse(masterKey, sessionKey)
    /\ LET result == decryptNote(DecryptInput(k), masterKey', outs)
       IN crypto' = [crypto EXCEPT
                        !.dec = [status |-> result.status, note |-> result.note,
                                 of |-> k, key |-> masterKey']]
    /\ keyCleared' = IF masterKey' # NoKey THEN FALSE ELSE keyCleared
    /\ UNCHANGED <<handler, accountVars, isOffline, user, sessionKey, now, notes,
                   pendingSync, nextOpId, remote, docCounter, drain, lastDone, lastCall,
                   createCalls, enqueuedPayload>>

\* the catch block of the display map: the note with placeholder title and
\* content and decryptionError: true
UnableToDecrypt(note) ==
    [note |-> [note EXCEPT !.title = Str("[Unable to Decrypt]"),
                           !.content = Str("Check your encryption password")],
     decryptionError |-> TRUE]

\* the callback of encryptedNotes.map(...) in loadNotes
DisplayNote(note, key, outs) ==
    IF note.encrypted = "true"
    THEN LET result == decryptNote(note, key, outs)
         IN IF result.status = "ok"
            THEN [note |-> result.note, decryptionError |-> FALSE]
            ELSE UnableToDecrypt(note)
    ELSE [note |-> note, decryptionError |-> FALSE]

\* variant: the first note that fails to decrypt ends the load with no list
RECURSIVE decryptedNotesAbortOnFailure(_, _, _, _)
decryptedNotesAbortOnFailure(list, mk, sk, outs) ==
    IF list = <<>> THEN <<>>
    ELSE LET note == Head(list)
             key == IF note.encrypted = "true" THEN KeyInUse(mk, sk) ELSE mk
             first == DisplayNote(note, key, Head(outs))
             rest == decryptedNotesAbortOnFailure(Tail(list), key, sk, Tail(outs))
         IN IF first.decryptionError \/ Len(rest) < Len(list) - 1 THEN <<>>
            ELSE <<first>> \o rest

\* const decryptedNotes = encryptedNotes.map(...): one decryptNote call per
\* encrypted note, in list order; a call with no master key adopts the
\* session copy for the calls after it
RECURSIVE decryptedNotes(_, _, _, _)
decryptedNotes(list, mk, sk, outs) ==
    IF list = <<>> THEN <<>>
    ELSE LET note == Head(list)
             key == IF note.encrypted = "true" THEN KeyInUse(mk, sk) ELSE mk
         IN <<DisplayNote(note, key, Head(outs))>>
               \o decryptedNotes(Tail(list), key, sk, Tail(outs))

\* the master key once the map has run
RECURSIVE KeyAfterList(_, _, _)
KeyAfterList(list, mk, sk) ==
    IF list = <<>> THEN mk
    ELSE KeyAfterList(Tail(list),
                      IF Head(list).encrypted = "true" THEN KeyInUse(mk, sk) ELSE mk, sk)

\* a fetched list: the encrypted copies made so far, as notes of their own,
\* followed by the note as given
FetchedList ==
    [k \in 1..(Len(crypto.enc) + 1) |->
        IF k <= Len(crypto.enc) THEN [crypto.enc[k] EXCEPT !.id = DocId(k)]
        ELSE crypto.note]

\* what a wrong key decodes the three fields of one note to
ListOutcomes == {[title |-> o, content |-> o, tags |-> o] : o \in WrongKeyOutcomes}

\* the display step of loadNotes on FetchedList: map, then setNotes
DecryptListCall(outs) ==
    /\ Len(crypto.enc) > 0
    /\ outs \in [1..(Len(crypto.enc) + 1) -> ListOutcomes]
    /\ masterKey' = KeyAfterList(FetchedList, masterKey, sessionKey)
    /\ crypto' = [crypto EXCEPT
                     !.view = [list |-> FetchedList, masterKey |-> masterKey, outs |-> outs,
                               shown |-> decryptedNotes(FetchedList, masterKey, sessionKey, outs)]]
    /\ keyCleared' = IF masterKey' # NoKey THEN FALSE ELSE keyCleared
    /\ UNCHANGED <<handler, accountVars, isOffline, user, sessionKey, now, notes,
                   pendingSync, nextOpId, remote, docCounter, drain, lastDone, lastCall,
                   createCalls, enqueuedPayload>>

-----------------------------------------------------------------------------
(* notesDB called directly: updateNoteLocally and deleteNoteLocally with    *)
(* either of their two writes failing                                       *)

\* the updates object a handler passes: an encrypted note
LocalUpdates(input, key, t) ==
    [encryptNote(EditorNote(input, user, t), key, 3 * t) EXCEPT !.syncStatus = "pending"]

\* the ids passed: the rows of the table and an id with no row
LocalIds == (DOMAIN notes) \cup {OfflineId(0)}

\* await notesDB.updateNoteLocally(id, updates) returns or throws
UpdateNoteLocallyCall(id, input, io) ==
    /\ now <= MaxClock
    /\ masterKey # NoKey
    /\ now' = now + 1
    /\ updateNoteLocally(id, LocalUpdates(input, masterKey, now), io)
    /\ lastCall' = CallRecord("local", "update", id, NoData, io # "note-failed",
                              IF io = "ok" THEN nextOpId ELSE 0)
    /\ UNCHANGED <<handler, crypto, accountVars, keyCleared, isOffline, user, masterKey, sessionKey,
                   remote, docCounter, drain, lastDone, createCalls>>

\* await notesDB.deleteNoteLocally(id) returns or throws
DeleteNoteLocallyCall(id, io) ==
    /\ now <= MaxClock
    /\ now' = now + 1
    /\ deleteNoteLocally(id, io)
    /\ lastCall' = CallRecord("local", "delete", id, NoData, io # "note-failed",
                              IF io = "ok" THEN nextOpId ELSE 0)
    /\ UNCHANGED <<handler, crypto, accountVars, keyCleared, isOffline, user, masterKey, sessionKey,
                   remote, docCounter, drain, lastDone, createCalls>>

\* await notesDB.saveNoteLocally(note) of an offline create
SaveNoteLocallyCall(input) ==
    /\ now <= MaxClock
    /\ masterKey # NoKey
    /\ now' = now + 1
    /\ notes' = saveNoteLocally(notes, [LocalUpdates(input, masterKey, now) EXCEPT
                                           !.id = OfflineId(now), !.createdAt = now])
    /\ lastCall' = NoCall
    /\ UNCHANGED <<handler, crypto, accountVars, keyCleared, isOffline, user, masterKey, sessionKey,
                   pendingSync, nextOpId, enqueuedPayload,
                   remote, docCounter, drain, lastDone, createCalls>>

-----------------------------------------------------------------------------

EmptyTable == [k \in {} |-> EmptyObject]

\* the note of an earlier online session: in Firestore, and cached as synced
\* once a list load (loadNotes) has run in this browser
SeedNote ==
    NoteObject(DocId(0), Uid, Cipher(Key, 0, "Old"), Cipher(Key, 1, "text"),
               Cipher(Key, 2, "[]"), "true", ServerTimestamp(0), ServerTimestamp(0),
               "undefined")

\* a signed-in session with the derived key set and cached
Init ==
    /\ isOffline \in BOOLEAN
    /\ user = Uid
    /\ masterKey = Key
    /\ sessionKey = Key
    /\ now = 1
    /\ \E seeded \in BOOLEAN, cached \in BOOLEAN :
          /\ remote = IF seeded THEN Put(EmptyTable, SeedNote) ELSE EmptyTable
          /\ notes = IF seeded /\ cached THEN saveNoteLocally(EmptyTable, SeedNote)
                     ELSE EmptyTable
    /\ pendingSync = <<>>
    /\ nextOpId = 1
    /\ docCounter = 0
    /\ drain = [d \in Drains |-> IdleDrain]
    /\ lastDone = NoDrain
    /\ lastCall = NoCall
    /\ createCalls = [k \in {} |-> 0]
    /\ enqueuedPayload = [k \in {} |-> NoData]
    /\ encryptionKeys = [u \in {Uid} |-> InitialSalt(u)]
    /\ remoteSalt = [u \in {Uid} |-> InitialSalt(u)]
    /\ appVariant = "part_001"
    /\ logout = IdleLogout
    /\ login = IdleLogin
    /\ saltCounter = 0
    /\ auth = ReadyAuth
    /\ handler = IdleHandler
    /\ keyCleared = FALSE
    /\ crypto = IdleCrypto

Next ==
    \/ GoOnline
    \/ GoOffline
    \/ \E d \in HookDrains : syncNotes(d)
    \/ \E input \in NoteInputs, id \in KnownIds \cup {NoId}, ok \in RemoteOutcomes :
          handleSave(input, id, ok)
    \/ \E input \in NoteInputs, ok \in RemoteOutcomes : createNote(input, ok)
    \/ \E id \in KnownIds, input \in NoteInputs, ok \in RemoteOutcomes :
          updateExistingNote(id, input, ok)
    \/ \E id \in KnownIds, ok \in RemoteOutcomes : deleteNote(id, ok)
    \/ \E id \in KnownIds, ok \in RemoteOutcomes : handleDelete(id, ok)
    \/ \E ok \in RemoteOutcomes : loadNotes(ok)
    \/ AppDrainRead
    \/ \E d \in HookDrains : HookDrainRead(d)
    \/ \E d \in HookDrains : \E k \in drain[d].inflight, ok \in RemoteOutcomes :
          HookDrainSettle(d, k, ok)
    \/ \E d \in Drains : DrainClear(d)
    \/ \E d \in HookDrains, ok \in RemoteOutcomes : HookDrainReload(d, ok)

Spec == Init /\ [][Next]_vars

\* a freshly opened tab with nobody signed in; both accounts exist, u1 with
\* its salt stored, u2 with none stored yet
SessionInit ==
    /\ isOffline \in BOOLEAN
    /\ user = NoUser
    /\ masterKey = NoKey
    /\ sessionKey = NoKey
    /\ now = 1
    /\ \E seeded \in BOOLEAN :
          remote = IF seeded THEN Put(EmptyTable, SeedNote) ELSE EmptyTable
    /\ notes = EmptyTable
    /\ pendingSync = <<>>
    /\ nextOpId = 1
    /\ docCounter = 0
    /\ drain = [d \in Drains |-> IdleDrain]
    /\ lastDone = NoDrain
    /\ lastCall = NoCall
    /\ createCalls = [k \in {} |-> 0]
    /\ enqueuedPayload = [k \in {} |-> NoData]
    /\ encryptionKeys = [u \in {} |-> "null"]
    /\ remoteSalt = [u \in Users |-> IF u = Uid THEN InitialSalt(u) ELSE "null"]
    /\ appVariant \in {"App.js", "part_001"}
    /\ logout = IdleLogout
    /\ login = IdleLogin
    /\ saltCounter = 0
    /\ auth = IdleAuth
    /\ handler = IdleHandler
    /\ keyCleared = FALSE
    /\ crypto = IdleCrypto

\* the App as routed: Login, NotesList, NoteEditor and App's own handlers
SessionNext ==
    \/ handleOnline
    \/ GoOffline
    \/ \E uid \in Users, ok \in RemoteOutcomes : handleSubmit(uid, ok)
    \/ onAuthChange
    \/ handleLogout
    \/ \E ok \in BOOLEAN : LogoutClearUserData(ok)
    \/ \E ok \in BOOLEAN : LogoutSignOut(ok)
    \/ \E input \in NoteInputs, id \in KnownIds \cup {NoId}, ok \in RemoteOutcomes :
          handleSave(input, id, ok)
    \/ \E id \in KnownIds, ok \in RemoteOutcomes : handleDelete(id, ok)
    \/ \E ok \in RemoteOutcomes : loadNotes(ok)
    \/ AppDrainRead
    \/ DrainClear("app")

SessionSpec == SessionInit /\ [][SessionNext]_vars

\* a freshly opened tab, online, with nobody signed in; account u1 is
\* registered, account u2 is not
LoginInit ==
    /\ isOffline = FALSE
    /\ user = NoUser
    /\ masterKey = NoKey
    /\ sessionKey = NoKey
    /\ now = 1
    /\ remote = Put(EmptyTable, SeedNote)
    /\ notes = EmptyTable
    /\ pendingSync = <<>>
    /\ nextOpId = 1
    /\ docCounter = 0
    /\ drain = [d \in Drains |-> IdleDrain]
    /\ lastDone = NoDrain
    /\ lastCall = NoCall
    /\ createCalls = [k \in {} |-> 0]
    /\ enqueuedPayload = [k \in {} |-> NoData]
    /\ encryptionKeys = [u \in {} |-> "null"]
    /\ remoteSalt = [u \in {Uid} |-> InitialSalt(u)]
    /\ appVariant \in {"App.js", "part_001"}
    /\ logout = IdleLogout
    /\ login = IdleLogin
    /\ saltCounter = 0
    /\ auth = IdleAuth
    /\ handler = IdleHandler
    /\ keyCleared = FALSE
    /\ crypto = IdleCrypto

\* Register, Login and logout, with the editor in between
LoginNext ==
    \/ \E uid \in Users, ok \in RemoteOutcomes : LoginSignIn(uid, ok)
    \/ \E ok \in RemoteOutcomes : LoginGetSalt(ok)
    \/ \E uid \in Users, ok \in RemoteOutcomes : Register(uid, ok)
    \/ \E ok \in RemoteOutcomes : LoginSaveSalt(ok)
    \/ handleLogout
    \/ \E ok \in BOOLEAN : LogoutClearUserData(ok)
    \/ \E ok \in BOOLEAN : LogoutSignOut(ok)
    \/ \E input \in NoteInputs, id \in KnownIds \cup {NoId}, ok \in RemoteOutcomes :
          handleSave(input, id, ok)

LoginSpec == LoginInit /\ [][LoginNext]_vars

\* a freshly opened tab of the part_001 App, online, with nobody signed in;
\* u1 is a returning user (salt stored), u2 has no salt stored yet
AuthInit ==
    /\ isOffline = FALSE
    /\ user = NoUser
    /\ masterKey = NoKey
    /\ sessionKey = NoKey
    /\ now = 1
    /\ remote = Put(EmptyTable, SeedNote)
    /\ notes = EmptyTable
    /\ pendingSync = <<>>
    /\ nextOpId = 1
    /\ docCounter = 0
    /\ drain = [d \in Drains |-> IdleDrain]
    /\ lastDone = NoDrain
    /\ lastCall = NoCall
    /\ createCalls = [k \in {} |-> 0]
    /\ enqueuedPayload = [k \in {} |-> NoData]
    /\ encryptionKeys \in {[u \in {} |-> "null"], [u \in {Uid} |-> InitialSalt(u)]}
    /\ remoteSalt = [u \in Users |-> IF u = Uid THEN InitialSalt(u) ELSE "null"]
    /\ appVariant = "part_001"
    /\ logout = IdleLogout
    /\ login = IdleLogin
    /\ saltCounter = 0
    /\ auth = IdleAuth
    /\ handler = IdleHandler
    /\ keyCleared = FALSE
    /\ crypto = IdleCrypto

\* the auth callback that Firebase has queued
AuthCallback == \E ok \in RemoteOutcomes : AuthListener(ok)

\* the rest of Login.handleSubmit once loginUser has returned
LoginHandlerSteps ==
    \/ \E ok \in RemoteOutcomes : LoginGetSalt(ok)
    \/ \E ok \in RemoteOutcomes : LoginSaveSalt(ok)

\* Login, the auth listener and logout, with the editor behind the route guard
AuthNext ==
    \/ \E uid \in Users, ok \in RemoteOutcomes : AuthSignIn(uid, ok)
    \/ AuthCallback
    \/ LoginHandlerSteps
    \/ handleLogout
    \/ \E ok \in BOOLEAN : LogoutClearUserData(ok)
    \/ \E ok \in BOOLEAN : LogoutSignOut(ok)
    \/ /\ NotesRoutesShown
       /\ \E input \in NoteInputs, id \in KnownIds \cup {NoId}, ok \in RemoteOutcomes :
             handleSave(input, id, ok)

\* a queued callback is called, and an awaited call of the handler settles
AuthSpec ==
    AuthInit /\ [][AuthNext]_vars /\ WF_vars(AuthCallback) /\ WF_vars(LoginHandlerSteps)

\* a signed-in session, online, with the note of an earlier session cached
RaceInit ==
    /\ isOffline = FALSE
    /\ user = Uid
    /\ masterKey = Key
    /\ sessionKey = Key
    /\ now = 1
    /\ remote = Put(EmptyTable, SeedNote)
    /\ notes = saveNoteLocally(EmptyTable, SeedNote)
    /\ pendingSync = <<>>
    /\ nextOpId = 1
    /\ docCounter = 0
    /\ drain = [d \in Drains |-> IdleDrain]
    /\ lastDone = NoDrain
    /\ lastCall = NoCall
    /\ createCalls = [k \in {} |-> 0]
    /\ enqueuedPayload = [k \in {} |-> NoData]
    /\ encryptionKeys = [u \in {Uid} |-> InitialSalt(u)]
    /\ remoteSalt = [u \in {Uid} |-> InitialSalt(u)]
    /\ appVariant \in {"App.js", "part_001"}
    /\ logout = IdleLogout
    /\ login = IdleLogin
    /\ saltCounter = 0
    /\ auth = ReadyAuth
    /\ handler = IdleHandler
    /\ keyCleared = FALSE
    /\ crypto = IdleCrypto

\* the handlers with their remote calls in flight, and logout beside them
RaceNext ==
    \/ \E input \in NoteInputs, id \in KnownIds \cup {NoId} : SaveStart(input, id)
    \/ \E ok \in RemoteOutcomes : SaveSettles(ok)
    \/ \E id \in KnownIds : DeleteStart(id)
    \/ \E ok \in RemoteOutcomes : DeleteSettles(ok)
    \/ LoadStart
    \/ \E ok \in RemoteOutcomes : LoadSettles(ok)
    \/ handleLogout
    \/ \E ok \in BOOLEAN : LogoutClearUserData(ok)
    \/ \E ok \in BOOLEAN : LogoutSignOut(ok)

RaceSpec == RaceInit /\ [][RaceNext]_vars

\* the hook mounted, with room for a second useNotes.syncNotes call beside
\* the first; the note of an earlier session is cached
OverlapInit ==
    /\ isOffline \in BOOLEAN
    /\ user = Uid
    /\ masterKey = Key
    /\ sessionKey = Key
    /\ now = 1
    /\ remote = Put(EmptyTable, SeedNote)
    /\ notes = saveNoteLocally(EmptyTable, SeedNote)
    /\ pendingSync = <<>>
    /\ nextOpId = 1
    /\ docCounter = 0
    /\ drain = [d \in Drains \cup {"hook2"} |-> IdleDrain]
    /\ lastDone = NoDrain
    /\ lastCall = NoCall
    /\ createCalls = [k \in {} |-> 0]
    /\ enqueuedPayload = [k \in {} |-> NoData]
    /\ encryptionKeys = [u \in {Uid} |-> InitialSalt(u)]
    /\ remoteSalt = [u \in {Uid} |-> InitialSalt(u)]
    /\ appVariant = "part_001"
    /\ logout = IdleLogout
    /\ login = IdleLogin
    /\ saltCounter = 0
    /\ auth = ReadyAuth
    /\ handler = IdleHandler
    /\ keyCleared = FALSE
    /\ crypto = IdleCrypto

OverlapNext ==
    \/ GoOnline
    \/ GoOffline
    \/ \E d \in HookDrains : syncNotes(d)
    \/ \E id \in KnownIds, ok \in RemoteOutcomes : deleteNote(id, ok)
    \/ AppDrainRead
    \/ \E d \in HookDrains : HookDrainRead(d)
    \/ \E d \in HookDrains : \E k \in drain[d].inflight, ok \in RemoteOutcomes :
          HookDrainSettle(d, k, ok)
    \/ \E d \in DOMAIN drain : DrainClear(d)
    \/ \E d \in HookDrains, ok \in RemoteOutcomes : HookDrainReload(d, ok)

OverlapSpec == OverlapInit /\ [][OverlapNext]_vars

\* the service and a note to work on: after a login (key set and cached in
\* the session), after a page reload (only the session copy is left) or in
\* a tab where nobody has logged in (no key anywhere)
CryptoInit ==
    /\ isOffline = FALSE
    /\ user = Uid
    /\ sessionKey \in Keys \cup {NoKey}
    /\ masterKey \in {sessionKey, NoKey}
    /\ now = 1
    /\ remote = EmptyTable
    /\ notes = EmptyTable
    /\ pendingSync = <<>>
    /\ nextOpId = 1
    /\ docCounter = 0
    /\ drain = [d \in Drains |-> IdleDrain]
    /\ lastDone = NoDrain
    /\ lastCall = NoCall
    /\ createCalls = [k \in {} |-> 0]
    /\ enqueuedPayload = [k \in {} |-> NoData]
    /\ encryptionKeys = [u \in {Uid} |-> InitialSalt(u)]
    /\ remoteSalt = [u \in {Uid} |-> InitialSalt(u)]
    /\ appVariant = "part_001"
    /\ logout = IdleLogout
    /\ login = IdleLogin
    /\ saltCounter = 0
    /\ auth = ReadyAuth
    /\ handler = IdleHandler
    /\ keyCleared = FALSE
    /\ \E n \in CryptoNotes : crypto = CryptoOn(n)

CryptoNext ==
    \/ \E key \in Keys : setMasterKey(key)
    \/ clearMasterKey
    \/ EncryptCall
    \/ \E k \in 0..MaxEncrypt :
          \E outs \in [title : WrongKeyOutcomes, content : WrongKeyOutcomes,
                        tags : WrongKeyOutcomes] : DecryptCall(k, outs)

CryptoSpec == CryptoInit /\ [][CryptoNext]_vars

\* the service while lists of notes are decrypted for display
ListNext ==
    \/ \E key \in Keys : setMasterKey(key)
    \/ clearMasterKey
    \/ EncryptCall
    \/ \E outs \in [1..(Len(crypto.enc) + 1) -> ListOutcomes] : DecryptListCall(outs)

ListSpec == CryptoInit /\ [][ListNext]_vars

\* an offline session over the local store, with the note of an earlier
\* session cached or not
StoreInit ==
    /\ isOffline = TRUE
    /\ user = Uid
    /\ masterKey = Key
    /\ sessionKey = Key
    /\ now = 1
    /\ remote = Put(EmptyTable, SeedNote)
    /\ notes \in {EmptyTable, saveNoteLocally(EmptyTable, SeedNote)}
    /\ pendingSync = <<>>
    /\ nextOpId = 1
    /\ docCounter = 0
    /\ drain = [d \in Drains |-> IdleDrain]
    /\ lastDone = NoDrain
    /\ lastCall = NoCall
    /\ createCalls = [k \in {} |-> 0]
    /\ enqueuedPayload = [k \in {} |-> NoData]
    /\ encryptionKeys = [u \in {Uid} |-> InitialSalt(u)]
    /\ remoteSalt = [u \in {Uid} |-> InitialSalt(u)]
    /\ appVariant = "part_001"
    /\ logout = IdleLogout
    /\ login = IdleLogin
    /\ saltCounter = 0
    /\ auth = ReadyAuth
    /\ handler = IdleHandler
    /\ keyCleared = FALSE
    /\ crypto = IdleCrypto

StoreNext ==
    \/ \E id \in LocalIds, input \in NoteInputs, io \in WriteOutcomes :
          UpdateNoteLocallyCall(id, input, io)
    \/ \E id \in LocalIds, io \in WriteOutcomes : DeleteNoteLocallyCall(id, io)
    \/ \E input \in NoteInputs : SaveNoteLocallyCall(input)

StoreSpec == StoreInit /\ [][StoreNext]_vars

\* an offline session with the note of an earlier session cached; the
\* network comes back once and every remote call made from then on succeeds
ReconnectInit ==
    /\ isOffline = TRUE
    /\ user = Uid
    /\ masterKey = Key
    /\ sessionKey = Key
    /\ now = 1
    /\ remote = Put(EmptyTable, SeedNote)
    /\ notes = saveNoteLocally(EmptyTable, SeedNote)
    /\ pendingSync = <<>>
    /\ nextOpId = 1
    /\ docCounter = 0
    /\ drain = [d \in Drains |-> IdleDrain]
    /\ lastDone = NoDrain
    /\ lastCall = NoCall
    /\ createCalls = [k \in {} |-> 0]
    /\ enqueuedPayload = [k \in {} |-> NoData]
    /\ encryptionKeys = [u \in {Uid} |-> InitialSalt(u)]
    /\ remoteSalt = [u \in {Uid} |-> InitialSalt(u)]
    /\ appVariant = "part_001"
    /\ logout = IdleLogout
    /\ login = IdleLogin
    /\ saltCounter = 0
    /\ auth = ReadyAuth
    /\ handler = IdleHandler
    /\ keyCleared = FALSE
    /\ crypto = IdleCrypto

\* the steps of the drains that the 'online' event started
ReconnectDrain ==
    \/ AppDrainRead
    \/ \E d \in HookDrains : HookDrainRead(d)
    \/ \E d \in HookDrains : \E k \in drain[d].inflight : HookDrainSettle(d, k, TRUE)
    \/ \E d \in Drains : DrainClear(d)
    \/ \E d \in HookDrains : HookDrainReload(d, TRUE)

ReconnectNext ==
    \/ GoOnline
    \/ \E input \in NoteInputs, id \in KnownIds \cup {NoId} : handleSave(input, id, TRUE)
    \/ \E id \in KnownIds : handleDelete(id, TRUE)
    \/ loadNotes(TRUE)
    \/ ReconnectDrain

\* the network does come back, and a drain that can take a step takes it
ReconnectSpec ==
    ReconnectInit /\ [][ReconnectNext]_vars /\ WF_vars(GoOnline) /\ WF_vars(ReconnectDrain)

-----------------------------------------------------------------------------
(* Properties *)

CipherFields(note) ==
    /\ note.encrypted = "true"
    /\ IsCiphertext(note.title)
    /\ IsCiphertext(note.content)
    /\ IsCiphertext(note.tags)

NoPlainFields(note) ==
    /\ ~IsPlaintext(note.title)
    /\ ~IsPlaintext(note.content)
    /\ ~IsPlaintext(note.tags)

OpIds(queue) == {queue[k].id : k \in 1..Len(queue)}

\* this step is an offline create: a row with a fresh temporary id appears
OfflineCreateStep ==
    /\ isOffline
    /\ OfflineId(now) \notin DOMAIN notes
    /\ OfflineId(now) \in DOMAIN notes'

\* C1: creating a note while offline leaves the Local Store holding it with
\* syncStatus 'pending' and the queue with exactly one new operation, of
\* action 'create', referencing the note.
C1_OfflineCreateIsPendingAndQueued ==
    [][OfflineCreateStep =>
          /\ notes'[OfflineId(now)].syncStatus = "pending"
          /\ Len(pendingSync') = Len(pendingSync) + 1
          /\ pendingSync'[Len(pendingSync')].action = "create"
          /\ pendingSync'[Len(pendingSync')].noteId = OfflineId(now)]_vars

\* this step ends a useNotes.syncNotes call in which every replay succeeded
\* and since whose queue read no mutation was made
CleanHookDrainEnds ==
    /\ drain["hook"].pc = "reload"
    /\ drain'["hook"].pc = "idle"
    /\ ~isOffline
    /\ drain["hook"].startClock = now
    /\ \A k \in 1..Len(drain["hook"].calls) : drain["hook"].calls[k].ok

\* C2: for a note created offline, once online and a drain ran with every
\* remote call succeeding, the remote store received exactly one create
\* call for the note, the queue is empty and the note is 'synced' locally.
C2_OfflineCreateReachesRemote ==
    [][CleanHookDrainEnds =>
          \A n \in DOMAIN notes' :
             IsOfflineId(n) =>
                /\ n \in DOMAIN createCalls'
                /\ createCalls'[n] = 1
                /\ pendingSync' = <<>>
                /\ notes'[n].syncStatus = "synced"]_vars

\* C3: an operation leaves the queue only after a remote call replaying it
\* returned successfully, whichever drain entry point removes it.
C3_RemovedOnlyAfterRemoteConfirm ==
    [][\A k \in 1..Len(pendingSync) :
          pendingSync[k].id \notin OpIds(pendingSync') =>
             \E d \in Drains : \E c \in 1..Len(drain[d].calls) :
                /\ drain[d].calls[c].opId = pendingSync[k].id
                /\ drain[d].calls[c].ok]_vars

\* this step is syncWithFirebase returning to useNotes.syncNotes
HookDrainReturns ==
    /\ drain["hook"].pc \in {"loop", "clear"}
    /\ drain'["hook"].pc = "reload"

\* C4: an operation whose remote call failed during a drain is still queued
\* after the drain (so the next drain attempts it again), and every
\* operation after it was attempted in the same pass.
C4_FailedOperationStaysQueued ==
    [][HookDrainReturns =>
          /\ Len(drain'["hook"].issued) = Len(drain'["hook"].pending)
          /\ \A c \in 1..Len(drain'["hook"].calls) :
                ~drain'["hook"].calls[c].ok =>
                   drain'["hook"].calls[c].opId \in OpIds(pendingSync')]_vars

\* C5: a drain replays the operations in the order they were enqueued
\* (ascending id), and the call for one operation has settled before the
\* call for the next is issued.
C5_FifoReplay ==
    \A d \in Drains :
       LET dr == drain[d] IN
       /\ \A a, b \in 1..Len(dr.pending) : a < b => dr.pending[a].id < dr.pending[b].id
       /\ Len(dr.issued) <= Len(dr.pending)
       /\ \A k \in 1..Len(dr.issued) : dr.issued[k] = dr.pending[k].id
       /\ Cardinality(dr.inflight) <= 1
       /\ d = "hook" =>
             /\ Len(dr.calls) = Len(dr.issued) - Cardinality(dr.inflight)
             /\ \A k \in 1..Len(dr.calls) : dr.calls[k].opId = dr.issued[k]

\* an 'update' and then a 'delete' were replayed, in that order, by one drain
C5_Witness ==
    /\ Len(drain["hook"].calls) = 2
    /\ drain["hook"].pending[1].action = "update"
    /\ drain["hook"].pending[2].action = "delete"

\* drain d read the queue after another drain returned, with no mutation
\* since that drain read the queue
SecondInARow(d) ==
    /\ drain[d].startClock > 0
    /\ drain[d].prev.startClock = drain[d].startClock

RemoteCallsOf(d) == Len(drain[d].calls) + Cardinality(drain[d].inflight)

C7_ReplayUsesQueuedPayload ==
    (/\ lastCall.by = "drain"
     /\ lastCall.action \in {"create", "update"}
     /\ lastCall.opId \in DOMAIN enqueuedPayload)
       => /\ CipherFields(lastCall.data)
          /\ lastCall.data.title = enqueuedPayload[lastCall.opId].title
          /\ lastCall.data.content = enqueuedPayload[lastCall.opId].content
          /\ lastCall.data.tags = enqueuedPayload[lastCall.opId].tags

\* C8: every note in the remote store is encrypted with title, content and
\* tags in ciphertext form, and no remote call carries a plaintext title,
\* content or tags; online creates and updates carry encrypted = true.
C8_RemoteSeesOnlyCiphertext ==
    /\ \A id \in DOMAIN remote : CipherFields(remote[id])
    /\ lastCall.by # "none" => NoPlainFields(lastCall.data)
    /\ (lastCall.by = "direct" /\ lastCall.action \in {"create", "update"})
          => CipherFields(lastCall.data)

\* an online update reached the remote store
C8_Witness ==
    /\ lastCall.by = "direct"
    /\ lastCall.action = "update"
    /\ lastCall.ok
    /\ lastCall.noteId \in DOMAIN remote

\* C9: every row of the Local Store holds ciphertext (encrypted = true) for
\* title, content and tags.
C9_LocalRowsAreCiphertext ==
    \A id \in DOMAIN notes : CipherFields(notes[id])

\* rows written by an offline create, by updateNoteLocally and by an online load
C9_Witness ==
    /\ \E id \in DOMAIN notes : IsOfflineId(id)
    /\ \E id \in DOMAIN notes : notes[id].syncStatus = "pending"

\* this step is an online create, update or delete whose remote call failed
DirectCallFailed ==
    /\ lastCall'.by = "direct"
    /\ ~lastCall'.ok

\* C10: when the direct remote call of an online create, update or delete
\* fails, the mutation is still applied locally, an operation is enqueued
\* for it and the note's syncStatus is 'pending'.
C10_FailedMirrorFallsBackToQueue ==
    [][DirectCallFailed =>
          /\ Len(pendingSync') = Len(pendingSync) + 1
          /\ pendingSync'[Len(pendingSync')].action = lastCall'.action
          /\ lastCall'.action = "delete" => lastCall'.noteId \notin DOMAIN notes'
          /\ lastCall'.action # "delete" =>
                \E id \in DOMAIN notes' :
                   /\ notes'[id].title = lastCall'.data.title
                   /\ notes'[id].syncStatus = "pending"]_vars

\* this step is an online create, update or delete whose remote call succeeded
DirectCallSucceeded ==
    /\ lastCall'.by = "direct"
    /\ lastCall'.ok

\* C11: a create, update or delete issued while online whose remote call
\* succeeds leaves the pending queue unchanged.
C11_OnlineSuccessLeavesQueueUnchanged ==
    [][DirectCallSucceeded => pendingSync' = pendingSync]_vars

\* this step is an update issued while offline: updateNoteLocally ran
OfflineUpdateStep ==
    /\ isOffline
    /\ nextOpId' = nextOpId + 1
    /\ pendingSync'[Len(pendingSync')].action = "update"

\* C12: an update of note X issued while offline, cached or not, leaves the
\* Local Store holding X with the newly encrypted fields and syncStatus
\* 'pending', appends exactly one {noteId: X, action: 'update'} to the tail
\* of the queue and makes no remote call.
C12_OfflineUpdateIsPendingAndQueued ==
    [][OfflineUpdateStep =>
          LET op == pendingSync'[Len(pendingSync')]
              X == op.noteId
          IN /\ Len(pendingSync') = Len(pendingSync) + 1
             /\ \A k \in 1..Len(pendingSync) : pendingSync'[k] = pendingSync[k]
             /\ lastCall' = NoCall
             /\ remote' = remote
             /\ X \in DOMAIN notes'
             /\ notes'[X].syncStatus = "pending"
             /\ CipherFields(notes'[X])
             /\ notes'[X].title = enqueuedPayload'[op.id].title
             /\ notes'[X].content = enqueuedPayload'[op.id].content
             /\ notes'[X].tags = enqueuedPayload'[op.id].tags]_vars

\* this step is clearUserData settling (committed or aborted)
ClearUserDataStep ==
    /\ logout.pc = "clearUserData"
    /\ logout'.pc # "clearUserData"

\* who enqueued the operation
OwnerOf(op, payloads) == payloads[op.id].userId

OpsOf(queue, payloads, uid) == SelectSeq(queue, LAMBDA op : OwnerOf(op, payloads) = uid)

\* C13: clearUserData(owner) is atomic: after it either the owner's notes,
\* pending operations and cached salt are all gone (getLocalNotes empty, no
\* pending operation of the owner, getEncryptionSalt null), which is the
\* case when it succeeded, or none of the three tables has changed.
C13_ClearUserDataIsAtomic ==
    [][ClearUserDataStep =>
          LET A == logout.uid
              allGone == /\ getLocalNotes(notes', A) = <<>>
                         /\ OpsOf(pendingSync', enqueuedPayload', A) = <<>>
                         /\ getEncryptionSalt(encryptionKeys', A) = "null"
              untouched == /\ notes' = notes
                           /\ pendingSync' = pendingSync
                           /\ encryptionKeys' = encryptionKeys
          IN /\ allGone \/ untouched
             /\ logout'.pc = "logoutUser" => allGone]_vars

\* a clearUserData that removed notes, pending operations and the salt
C13_Witness ==
    /\ logout.pc = "logoutUser"
    /\ logout.removedNotes > 0
    /\ logout.removedOps > 0
    /\ getEncryptionSalt(encryptionKeys, logout.uid) = "null"

\* C14: clearUserData(ownerA) leaves every note, cached salt and pending
\* operation of a different owner B unchanged.
C14_ClearUserDataTouchesOnlyOwner ==
    [][ClearUserDataStep =>
          \A B \in Users \ {logout.uid} :
             /\ getLocalNotes(notes', B) = getLocalNotes(notes, B)
             /\ getEncryptionSalt(encryptionKeys', B) = getEncryptionSalt(encryptionKeys, B)
             /\ OpsOf(pendingSync', enqueuedPayload', B)
                   = OpsOf(pendingSync, enqueuedPayload, B)]_vars

\* C16: after clearMasterKey and until the next successful setMasterKey no
\* copy of the key is usable: hasMasterKey() is false and the session copy
\* is gone, so that encryptNote and decryptNote have no key to fall back to.
C16_NoKeyAfterClearMasterKey ==
    keyCleared => (masterKey = NoKey /\ KeyInUse(masterKey, sessionKey) = NoKey)

\* this step ends a handleLogout call (by completing or through its catch)
LogoutFinishes ==
    /\ logout.pc # "idle"
    /\ logout'.pc = "idle"

\* C17: once handleLogout has finished, also when clearUserData or the
\* remote sign-out threw, the in-memory master key is null and the session
\* copy of the key is absent.
C17_LogoutClearsBothKeys ==
    [][LogoutFinishes => (masterKey' = NoKey /\ sessionKey' = NoKey)]_vars

\* the operations drain d has passed to the remote store while its
\* syncWithFirebase call is running (App.syncNotes passes none)
SentBy(d) ==
    IF d \in HookDrains /\ drain[d].pc \in {"loop", "clear"}
    THEN Range(drain[d].issued) ELSE {}

\* C15: no pending operation is sent to the remote store by two drains
\* that are in flight at the same time.
C15_NoDoubleReplay ==
    \A d1, d2 \in DOMAIN drain : d1 # d2 => SentBy(d1) \cap SentBy(d2) = {}

\* the result in crypto.dec comes from decrypting a copy with the key it
\* was encrypted with / with another key
DecryptedWithSameKey ==
    /\ crypto.dec.status # "none"
    /\ crypto.dec.of > 0
    /\ crypto.dec.key = crypto.enc[crypto.dec.of].title.key

DecryptedWithOtherKey ==
    /\ crypto.dec.status # "none"
    /\ crypto.dec.of > 0
    /\ crypto.dec.key # NoKey
    /\ crypto.dec.key # crypto.enc[crypto.dec.of].title.key

SameFields(a, b) == a.title = b.title /\ a.content = b.content /\ a.tags = b.tags

\* C18: decryptNote(encryptNote(N)) under the same key succeeds and returns
\* N's title, content and tags, for every N (empty title and content and an
\* empty tag list included).
C18_RoundTrip ==
    DecryptedWithSameKey =>
       (crypto.dec.status = "ok" /\ SameFields(crypto.dec.note, crypto.note))

\* C19: decryptNote under a key other than the one the note was encrypted
\* with raises an error, and decryptNote never returns a note marked
\* encrypted = false whose title, content or tags differ from the plaintext.
C19_WrongKeyIsAnError ==
    /\ DecryptedWithOtherKey => crypto.dec.status = "error"
    /\ (crypto.dec.status = "ok" /\ crypto.dec.note.encrypted = "false")
          => SameFields(crypto.dec.note, crypto.note)

\* C20: two encryptNote calls on the same note under the same key return
\* different ciphertexts for title, for content and for tags.
C20_FreshSaltPerCall ==
    \A i, j \in 1..Len(crypto.enc) :
       (i < j /\ crypto.enc[i].title.key = crypto.enc[j].title.key) =>
          /\ crypto.enc[i].title # crypto.enc[j].title
          /\ crypto.enc[i].content # crypto.enc[j].content
          /\ crypto.enc[i].tags # crypto.enc[j].tags

\* the same note was encrypted twice under one key
C20_Witness ==
    /\ Len(crypto.enc) >= 2
    /\ crypto.enc[1].title.key = crypto.enc[2].title.key
    /\ crypto.enc[1].title.plain = crypto.enc[2].title.plain

\* C21: decryptNote on a note whose encrypted flag is false (or missing)
\* returns the note unchanged and raises no error, whatever the key state:
\* master key set, key only in the session cache, or no key anywhere.
C21_PlainNoteReturnedUnchanged ==
    (crypto.dec.status # "none" /\ crypto.dec.of = 0) =>
       (crypto.dec.status = "ok" /\ crypto.dec.note = crypto.note)

\* this step is an encryptNote / a decryptNote call made with no master key
EncryptWithoutMasterKey ==
    /\ masterKey = NoKey
    /\ crypto' # crypto
    /\ crypto'.dec = crypto.dec

DecryptWithoutMasterKey ==
    /\ masterKey = NoKey
    /\ crypto'.dec # crypto.dec

\* the note the call decrypted is unencrypted or was encrypted with key k
ReadableWith(dec, k) ==
    dec.of > 0 => crypto.enc[dec.of].title.key = k

\* C30: with no master key, encryptNote and decryptNote fall back to the
\* session-cached key when there is one, adopting it as the master key and
\* then succeeding; with no key anywhere they fail with the no-key error and
\* change neither the master key nor the Local Store, the queue or the
\* remote store.
C30_SessionKeyFallback ==
    [][/\ EncryptWithoutMasterKey =>
             IF sessionKey # NoKey
             THEN /\ masterKey' = sessionKey
                  /\ crypto'.encStatus = "ok"
                  /\ Len(crypto'.enc) = Len(crypto.enc) + 1
                  /\ crypto'.enc[Len(crypto'.enc)].title.key = sessionKey
             ELSE /\ crypto'.encStatus = "no-key"
                  /\ crypto'.enc = crypto.enc
                  /\ UNCHANGED <<masterKey, notes, pendingSync, remote>>
       /\ DecryptWithoutMasterKey =>
             IF sessionKey # NoKey
             THEN /\ masterKey' = sessionKey
                  /\ crypto'.dec.key = sessionKey
                  /\ ReadableWith(crypto'.dec, sessionKey) => crypto'.dec.status = "ok"
             ELSE /\ crypto'.dec.status = "no-key"
                  /\ UNCHANGED <<masterKey, notes, pendingSync, remote>>]_vars

\* sequence s without its k-th element
Without(s, k) == [j \in 1..(Len(s) - 1) |-> IF j < k THEN s[j] ELSE s[j + 1]]

\* decryptNote throws on the k-th note of the list shown last
FailsToDecrypt(k) ==
    LET v == crypto.view
    IN /\ v.list[k].encrypted = "true"
       /\ decryptNote(v.list[k], KeyInUse(v.masterKey, sessionKey), v.outs[k]).status # "ok"

\* C22: loadNotes does not abort on a note that fails to decrypt: the list
\* shown has the ids of the fetched list in the same order, each failing
\* note carries decryptionError = true with the placeholder title and
\* content, and every other note is shown exactly as if the failing note
\* had not been in the list.
C22_LoadSurvivesDecryptFailure ==
    LET v == crypto.view
    IN /\ Len(v.shown) = Len(v.list)
       /\ \A k \in 1..Len(v.list) :
             /\ v.shown[k].note.id = v.list[k].id
             /\ FailsToDecrypt(k) =>
                   /\ v.shown[k].decryptionError
                   /\ v.shown[k].note.title = Str("[Unable to Decrypt]")
                   /\ v.shown[k].note.content = Str("Check your encryption password")
                   /\ Without(v.shown, k)
                         = decryptedNotes(Without(v.list, k), v.masterKey, sessionKey,
                                          Without(v.outs, k))

\* a list was shown in which the first note failed to decrypt and a later
\* one was decrypted
C22_Witness ==
    /\ Len(crypto.view.list) = 3
    /\ FailsToDecrypt(1)
    /\ ~FailsToDecrypt(2)
    /\ crypto.view.shown[2].note.encrypted = "false"
    /\ ~crypto.view.shown[2].decryptionError

\* this step is an online load caching what it fetched: loadNotes, or the
\* reload that ends useNotes.syncNotes
OnlineLoadStep ==
    /\ ~isOffline
    /\ notes' # notes
    /\ UNCHANGED <<now, remote, pendingSync, logout, user>>

\* C23: an online load never replaces a local note with a remote copy whose
\* updatedAt is older than the local copy's (last write wins).
C23_LoadKeepsNewerLocalCopy ==
    [][OnlineLoadStep =>
          \A id \in (DOMAIN notes) \cap (DOMAIN notes') :
             Millis(notes'[id].updatedAt) >= Millis(notes[id].updatedAt)]_vars

\* the list is ordered by the instants of updatedAt, latest first
NewestFirst(list) ==
    \A i, j \in 1..Len(list) :
       i < j => Millis(list[i].updatedAt) >= Millis(list[j].updatedAt)

\* the list holds exactly the rows of the table owned by ownerId, each once
ExactlyRowsOf(list, table, ownerId) ==
    /\ Range(list) = {table[k] : k \in {j \in DOMAIN table : table[j].userId = ownerId}}
    /\ \A i, j \in 1..Len(list) : i # j => list[i].id # list[j].id

\* C29: getLocalNotes(ownerId) returns exactly the local notes of ownerId,
\* each once, ordered by updatedAt descending; and while offline no step,
\* loadNotes included, calls or changes the remote store on its own account
\* (only a replay left in flight by a drain can settle, as a failure).
C29_LocalListIsOwnedAndNewestFirst ==
    [][/\ \A ownerId \in Users :
             /\ ExactlyRowsOf(getLocalNotes(notes', ownerId), notes', ownerId)
             /\ NewestFirst(getLocalNotes(notes', ownerId))
       /\ isOffline /\ isOffline' => (remote' = remote /\ lastCall'.by # "direct")]_vars

\* C24: after a drain in which every remote call succeeded, no local note
\* has an 'offline_' id any more: the temporary id was replaced by the id
\* the remote store assigned.
C24_TemporaryIdReplacedAfterDrain ==
    [][CleanHookDrainEnds => \A n \in DOMAIN notes' : ~IsOfflineId(n)]_vars

\* the note was made from an input with no title and no content
BlankNote(note) ==
    /\ IsCiphertext(note.title)
    /\ IsCiphertext(note.content)
    /\ Trim(note.title.plain) = ""
    /\ Trim(note.content.plain) = ""

\* C25: a note with no title and no content is rejected on every create and
\* update entry point before any encryption or storage work: no encrypted
\* form of such a note exists in the Local Store or the remote store, and
\* none is passed to a remote call.
C25_BlankNoteRejected ==
    /\ \A id \in DOMAIN notes : ~BlankNote(notes[id])
    /\ \A id \in DOMAIN remote : ~BlankNote(remote[id])
    /\ lastCall.action \in {"create", "update"} => ~BlankNote(lastCall.data)

\* the operations of drain record dr whose remote replay succeeded
ReplayedOk(dr) == {dr.calls[k].opId : k \in {j \in 1..Len(dr.calls) : dr.calls[j].ok}}

\* the report of the drain that dr records is exact for the queue it leaves
ReportIsExact(dr, queue) ==
    LET report == Result(dr)
    IN /\ report.total = Len(dr.pending)
       /\ report.synced = Cardinality(ReplayedOk(dr))
       /\ ReplayedOk(dr) \cap OpIds(queue) = {}
       /\ report.failed = report.total - report.synced
       /\ report.failed = Cardinality(OpIds(dr.pending) \cap OpIds(queue))
       /\ report.total = report.synced + report.failed

\* C28: syncWithFirebase reports {total, synced, failed}: total is the number
\* of operations read at the start, synced the number whose remote replay
\* succeeded and that were removed from the queue, failed = total - synced
\* the number left queued, and total = synced + failed.
C28_DrainReportIsExact ==
    [][/\ \A d \in HookDrains :
             (drain[d].pc \in {"read", "loop", "clear"} /\ drain'[d].pc = "reload")
                => ReportIsExact(drain'[d], pendingSync')
       /\ (drain["app"].pc = "clear" /\ drain'["app"].pc = "idle")
             => ReportIsExact(drain["app"], pendingSync')]_vars

\* this step completes a Login or Register flow successfully
LoginSucceeds ==
    /\ login.pc # "idle"
    /\ login'.pc = "idle"
    /\ login'.result = "ok"

\* C26: the salt of an account is generated once: a salt stored remotely for
\* an owner is never replaced, a login or registration flow draws a new salt
\* only for an owner with no salt stored, and after every successful login
\* the locally cached salt equals the remotely stored salt.
C26_SaltGeneratedOnce ==
    [][/\ \A u \in DOMAIN remoteSalt :
             remoteSalt[u] # "null" => remoteSalt'[u] = remoteSalt[u]
       /\ saltCounter' # saltCounter =>
             getEncryptionSalt(remoteSalt, login'.uid) = "null"
       /\ LoginSucceeds =>
             /\ getEncryptionSalt(remoteSalt', login.uid) # "null"
             /\ getEncryptionSalt(encryptionKeys', login.uid)
                   = getEncryptionSalt(remoteSalt', login.uid)]_vars

\* account u2 was registered with the first salt drawn, and a later login of
\* u2 has completed with that salt
C26_Witness ==
    /\ login.pc = "idle"
    /\ login.result = "ok"
    /\ login.by = "login"
    /\ login.uid = "u2"
    /\ saltCounter = 1
    /\ remoteSalt["u2"] = generateSalt(1)
    /\ encryptionKeys["u2"] = generateSalt(1)

\* what a wrong key can decode the three fields of a note to
FieldOutcomes ==
    [title : WrongKeyOutcomes, content : WrongKeyOutcomes, tags : WrongKeyOutcomes]

\* C27: deriveKeyFromPassword(p, s) returns the same key for the same (p, s)
\* and returns s as the salt, so that after a successful login with the same
\* encryption password every note the owner encrypted in an earlier session
\* is decrypted successfully.
C27_KeyIsStableAcrossSessions ==
    /\ \A u \in DOMAIN remoteSalt : \A n, m \in 0..MaxSalts :
          remoteSalt[u] # "null" =>
             /\ deriveKeyFromPassword(Password(u), remoteSalt[u], generateSalt(n))
                   = deriveKeyFromPassword(Password(u), remoteSalt[u], generateSalt(m))
             /\ deriveKeyFromPassword(Password(u), remoteSalt[u], generateSalt(n)).salt
                   = remoteSalt[u]
    /\ (login.pc = "idle" /\ login.result = "ok" /\ user = login.uid /\ masterKey # NoKey) =>
          \A id \in DOMAIN remote :
             remote[id].userId = user =>
                \A outs \in FieldOutcomes :
                   decryptNote(remote[id], masterKey, outs).status = "ok"

\* this step is a direct updateNoteLocally / deleteNoteLocally call
LocalMutationStep == lastCall'.by = "local"

\* C31: a local offline mutation and its Pending Operation are applied
\* together or not at all: when nothing is enqueued by updateNoteLocally or
\* deleteNoteLocally the notes table is as before the call, and when the
\* notes write fails nothing is enqueued.
C31_LocalMutationAllOrNothing ==
    [][LocalMutationStep =>
          /\ pendingSync' = pendingSync => notes' = notes
          /\ ~lastCall'.ok => pendingSync' = pendingSync]_vars

\* this step is the clearPendingSync call of drain d
ClearStep(d) == drain[d].pc = "clear" /\ drain'[d].pc # "clear"

\* the operations in the queue that drain record dr did not read
EnqueuedSinceRead(dr, queue) == OpIds(queue) \ OpIds(dr.pending)

\* C32: a drain removes from the queue exactly the operations it replayed
\* successfully: what its clearPendingSync call removes is what it replayed
\* with success, and an operation enqueued after the drain read the queue is
\* still queued when the drain finishes, for a later drain to read.
C32_DrainRemovesExactlyReplayed ==
    [][\A d \in DOMAIN drain :
          ClearStep(d) =>
             /\ OpIds(pendingSync) \ OpIds(pendingSync')
                   = ReplayedOk(drain[d]) \cap OpIds(pendingSync)
             /\ EnqueuedSinceRead(drain[d], pendingSync) \subseteq OpIds(pendingSync')]_vars

\* id, userId, createdAt, updatedAt and syncStatus of a and b are equal
SameMetadata(a, b) ==
    /\ a.id = b.id
    /\ a.userId = b.userId
    /\ a.createdAt = b.createdAt
    /\ a.updatedAt = b.updatedAt
    /\ a.syncStatus = b.syncStatus

\* C33: encryptNote changes only title, content, tags and the encrypted flag
\* (set to true): the metadata of every encrypted copy equals that of the
\* input, and the input is still the plaintext note it was; decryptNote
\* likewise keeps the metadata of its input, sets encrypted to false on an
\* encrypted note and leaves its input as it was.
C33_CryptoKeepsMetadata ==
    /\ crypto.note \in CryptoNotes \cup {EmptyObject}
    /\ \A k \in 1..Len(crypto.enc) :
          /\ SameMetadata(crypto.enc[k], crypto.note)
          /\ CipherFields(crypto.enc[k])
    /\ crypto.dec.status = "ok" =>
          LET input == DecryptInput(crypto.dec.of)
          IN /\ SameMetadata(crypto.dec.note, input)
             /\ IF input.encrypted = "true"
                THEN /\ crypto.dec.note.encrypted = "false"
                     /\ IsPlaintext(crypto.dec.note.title)
                     /\ IsPlaintext(crypto.dec.note.content)
                ELSE crypto.dec.note = input

\* a note carrying metadata was encrypted and its copy decrypted
C33_Witness ==
    /\ crypto.note.syncStatus = "pending"
    /\ crypto.note.createdAt = 1
    /\ Len(crypto.enc) > 0
    /\ crypto.dec.status = "ok"
    /\ crypto.dec.of > 0
    /\ crypto.dec.note.syncStatus = "pending"

\* this step is the network state going from offline to online with a user logged in
Reconnects == isOffline /\ ~isOffline' /\ user # NoUser

\* drain d hands an operation to its syncFunction's remote call in this step
IssuesRemoteCall(d) == d \in HookDrains /\ Len(drain'[d].issued) > Len(drain[d].issued)

\* C34: every transition of the network state from offline to online while a
\* user is logged in leaves a drain of each entry point running, and no
\* drain issues a remote call while the network is offline or while no user
\* is logged in.
C34_ReconnectDrainsOnlyOnline ==
    [][/\ Reconnects =>
             /\ drain'["app"].pc # "idle"
             /\ \E d \in HookDrains : drain'[d].pc # "idle"
       /\ \A d \in DOMAIN drain :
             IssuesRemoteCall(d) => ~isOffline' /\ user' # NoUser]_vars

\* some Pending Operation in the queue references note id
Queued(id) == \E k \in 1..Len(pendingSync) : pendingSync[k].noteId = id

\* the Local Store row of id holds a change the remote store has not received
Unsynced(id) ==
    \/ id \notin DOMAIN remote
    \/ ~SameFields(notes[id], remote[id])

\* C35: in every reachable state, every Local Store note with syncStatus
\* 'pending' has a Pending Operation referencing its id, and every note
\* created or changed locally that the remote store has not received is
\* 'pending' or has such an operation queued.
C35_PendingHasOperation ==
    \A id \in DOMAIN notes :
       /\ notes[id].syncStatus = "pending" => Queued(id)
       /\ Unsynced(id) => notes[id].syncStatus = "pending" \/ Queued(id)

\* note X of the remote store was deleted while offline: its row is gone and
\* its 'delete' operation is queued
DeletedOffline(X) ==
    /\ isOffline
    /\ X \in DOMAIN remote
    /\ X \notin DOMAIN notes
    /\ \E k \in 1..Len(pendingSync) :
          pendingSync[k].noteId = X /\ pendingSync[k].action = "delete"

\* C36: after a note X that exists remotely is deleted while offline and the
\* network comes back with every remote call succeeding, the system
\* eventually reaches and stays in a state where X is absent from both the
\* remote store and the Local Store, however the reconnect-triggered load
\* and drain interleave.
C36_OfflineDeleteConverges ==
    DeletedOffline(DocId(0)) ~>
       [](DocId(0) \notin DOMAIN remote /\ DocId(0) \notin DOMAIN notes)

\* Login.handleSubmit has completed for returning user u: the master key is
\* set and cached in the session
ReturningLoginDone(u) ==
    /\ login.pc = "idle"
    /\ login.result = "ok"
    /\ login.by = "login"
    /\ login.uid = u
    /\ login.salt = InitialSalt(u)
    /\ masterKey # NoKey
    /\ sessionKey = masterKey
    /\ logout.pc = "idle"

\* C37: after a returning user (salt already stored) has logged in with
\* valid credentials and the login handler has completed, the App
\* eventually has user.encryptionReady = true and shows the notes routes
\* without a page reload (unless the user logs out first), however the auth
\* listener and the login handler interleave.
C37_LoginLeadsToNotesRoutes ==
    ReturningLoginDone(Uid) ~> (NotesRoutesShown \/ logout.pc # "idle")

\* the Local Store holds nothing of owner uid
NothingLocalOf(uid) ==
    /\ \A id \in DOMAIN notes : notes[id].userId # uid
    /\ pendingSync = <<>>
    /\ uid \notin DOMAIN encryptionKeys

\* C38: once logout (handleLogout with a successful clearUserData) has
\* completed, the Local Store holds no note, pending operation or salt of
\* that owner, even when a save, delete or load of that owner was in flight
\* when logout started and finishes afterwards.
C38_NothingLocalAfterLogout ==
    (user = NoUser /\ logout.pc = "idle") => NothingLocalOf(Uid)

====
